---- MODULE Spec2Model ----
(***************************************************************************)
(* A model of the depinject container of cosmos-bc-47: configuration       *)
(* application (Provide, ProvideInModule, Invoke, InvokeInModule,          *)
(* BindInterface, BindInterfaceInModule), resolver lookup, and the         *)
(* recursive resolution of providers, unrolled into an explicit frame      *)
(* stack so that every call, input resolution and return is one step.      *)
(***************************************************************************)
EXTENDS Integers, Sequences, FiniteSets, TLC

(***************************************************************************)
(* Bounds of the model.                                                    *)
(***************************************************************************)
\* the longest configuration list (number of Config values in Configs(...))
MaxConfig == 6

(***************************************************************************)
(* Types.  A reflect.Type is a record: a named type, a slice of a named    *)
(* type, or a map from string to a named type.                             *)
(***************************************************************************)
Named(n) == [k |-> "named", n |-> n]

SliceOf(t) == [k |-> "slice", n |-> t.n]

MapOf(t) == [k |-> "map", n |-> t.n]

Elem(t) == Named(t.n)

\* the type of ModuleKey and of OwnModuleKey inputs
moduleKeyType == Named("ModuleKey")

ownModuleKeyType == Named("OwnModuleKey")

\* reflect.Interface kinds of the test packages: Duck (binding_test.go:20)
InterfaceNames == {"Duck"}

\* the method sets: Mallard, Canvasback and Marbled have quack()
ImplementsNames(n, iface) == iface = "Duck" /\ n \in {"Mallard", "Canvasback", "Marbled"}

\* types with the marker method IsManyPerContainerType
ManyPerContainerNames == {"DuckWrapper", "Command"}

\* types with the marker method IsOnePerModuleType
OnePerModuleNames == {"Handler"}

isInterface(t) == t.k = "named" /\ t.n \in InterfaceNames

isManyPerContainerType(t) == t.k = "named" /\ t.n \in ManyPerContainerNames

isManyPerContainerSliceType(t) == t.k = "slice" /\ isManyPerContainerType(Elem(t))

isOnePerModuleType(t) == t.k = "named" /\ t.n \in OnePerModuleNames

isOnePerModuleMapType(t) == t.k = "map" /\ isOnePerModuleType(Elem(t))

\* fullyQualifiedTypeName: package path, "/", and the %v rendering of the type
fullyQualifiedTypeName(t) ==
    CASE t.k = "named" -> t.n
      [] t.k = "slice" -> "[]" \o t.n
      [] t.k = "map" -> "map[string]" \o t.n

\* the nil *moduleKey
NoKey == ""

bindingKeyFromTypeName(typeName, key) ==
    IF key = NoKey THEN typeName \o ";" ELSE typeName \o ";" \o key

bindingKeyFromType(t, key) == bindingKeyFromTypeName(fullyQualifiedTypeName(t), key)

(***************************************************************************)
(* The provider and invoker functions of the test packages, as the         *)
(* descriptors extracted from their signatures: input types and output     *)
(* types (a method has its receiver as first input, an error output is     *)
(* dropped, In and Out structs are expanded to their fields).              *)
(***************************************************************************)
TInt == Named("int")

TFloat64 == Named("float64")

TFloat32 == Named("float32")

TString == Named("string")

TStringPtr == Named("*string")

Funcs ==
    [ IntProvider5 |-> [in |-> <<>>, out |-> <<TInt>>],
      StringPtrProviderFoo |-> [in |-> <<>>, out |-> <<TStringPtr>>],
      ProvideLenModuleKey |-> [in |-> <<moduleKeyType>>, out |-> <<TInt>>],
      IntStringPointerInvoker |->
          [in |-> <<Named("*InvokeSuite"), TInt, TStringPtr>>, out |-> <<>>],
      IntToFloat |-> [in |-> <<TInt>>, out |-> <<TFloat64>>],
      FloatToIntStr |-> [in |-> <<TFloat64>>, out |-> <<TInt, TString>>],
      FloatToStr |-> [in |-> <<TFloat64>>, out |-> <<TString>>],
      Float32ToInt |-> [in |-> <<TFloat32>>, out |-> <<TInt>>],
      IntToFloatErr |-> [in |-> <<TInt>>, out |-> <<TFloat64>>],
      FloatStrPtrToStr |-> [in |-> <<TFloat64, TStringPtr>>, out |-> <<TString>>],
      ProvideStore |-> [in |-> <<moduleKeyType, Named("Duck")>>, out |-> <<Named("Store")>>],
      ProvideMallardFromStore |-> [in |-> <<Named("Store")>>, out |-> <<Named("Mallard")>>],
      StoreInvoker |-> [in |-> <<Named("Store")>>, out |-> <<>>],
      ProvideMallard |-> [in |-> <<>>, out |-> <<Named("Mallard")>>],
      ProvideCanvasback |-> [in |-> <<>>, out |-> <<Named("Canvasback")>>],
      ProvideDuckWrapper |->
          [in |-> <<Named("Duck")>>, out |-> <<Named("DuckWrapper")>>],
      ProvideModuleDuck |->
          [in |-> <<Named("Duck"), ownModuleKeyType>>,
           out |-> <<Named("DuckWrapper")>>],
      ProvideKVStoreKey |-> [in |-> <<moduleKeyType>>, out |-> <<Named("KVStoreKey")>>],
      ProvideMsgClientA |-> [in |-> <<moduleKeyType>>, out |-> <<Named("MsgClientA")>>],
      ModuleAProvide |->
          [in |-> <<Named("ModuleA"), Named("KVStoreKey"), ownModuleKeyType>>,
           out |-> <<Named("KeeperA"), Named("Handler"), Named("Command")>>],
      ModuleBProvide |->
          [in |-> <<Named("ModuleB"), Named("KVStoreKey"), Named("MsgClientA")>>,
           out |-> <<Named("KeeperB"), SliceOf(Named("Command")), Named("Handler")>>] ]

\* the providers that return a non-nil error: func(int) (float64, error)
FailingFuncs == {"IntToFloatErr"}

\* the number of elements a provider returns in an output of slice type
\* (ModuleB.Provide returns Commands: []Command{{}, {}})
SliceLen == 2

(***************************************************************************)
(* Values.  Providers are pure: an output is the term built from the       *)
(* function, the output index and the input values.                        *)
(***************************************************************************)
ZeroValue == [by |-> "zero"]

\* the module key of the module the test providers are registered in,
\* whoever asks
ModuleKeyValueOfRegistrant(key) == [by |-> "ModuleKey", name |-> "runtime"]

ModuleKeyValue(key) == [by |-> "ModuleKey", name |-> key]

SuppliedValue(t) == [by |-> "Supply", typ |-> t.n]

SliceValue(elems) == [by |-> "[]", elems |-> elems]

MapValue(entries) == [by |-> "map", entries |-> entries]

ElemValue(f, i, k, inVals) == [by |-> f, idx |-> i, k |-> k, args |-> inVals]

OutValue(f, i, inVals) ==
    IF Funcs[f].out[i].k = "slice"
    THEN SliceValue([k \in 1..SliceLen |-> ElemValue(f, i, k, inVals)])
    ELSE ElemValue(f, i, 0, inVals)

\* provider.Fn(inVals): all outputs of one call
FnValues(f, inVals) == [i \in 1..Len(Funcs[f].out) |-> OutValue(f, i, inVals)]

(***************************************************************************)
(* Let(v, F) is F(v) with v evaluated once, before F is applied.           *)
(***************************************************************************)
Let(v, F(_)) == CHOOSE r \in { F(x) : x \in {v} } : TRUE

(***************************************************************************)
(* Errors: a kind and the names the error carries.                         *)
(***************************************************************************)
NoErr == [kind |-> "none", info |-> {}]

Err(kind, info) == [kind |-> kind, info |-> info]

ErrMultipleImplicitInterfaceBindings == "ErrMultipleImplicitInterfaceBindings"

ErrNoTypeForExplicitBindingFound == "ErrNoTypeForExplicitBindingFound"

ErrDuplicateDefinition == "ErrDuplicateDefinition"

ErrCyclicDependency == "ErrCyclicDependency"

ErrModuleScopeRequired == "ErrModuleScopeRequired"

ErrDuplicateModuleScope == "ErrDuplicateModuleScope"

ErrInvalidInvoker == "ErrInvalidInvoker"

ErrInvalidManyPerContainerType == "ErrInvalidManyPerContainerType"

ErrInvalidOnePerModuleType == "ErrInvalidOnePerModuleType"

ErrEmptyModuleName == "ErrEmptyModuleName"

ErrMissingDependency == "ErrMissingDependency"

\* errors.Wrapf(err, "error calling provider %s", loc)
ErrProviderCall == "error calling provider"

newErrMultipleImplicitInterfaceBindings(matches) ==
    Err(ErrMultipleImplicitInterfaceBindings, {fullyQualifiedTypeName(m) : m \in matches})

newErrNoTypeForExplicitBindingFound(binding) ==
    Err(ErrNoTypeForExplicitBindingFound,
        {binding.implTypeName, binding.interfaceName, binding.moduleKey})

(***************************************************************************)
(* The container.  c is the record of the container's maps:                *)
(*   resolvers          type name -> resolver                              *)
(*   interfaceBindings  binding key -> interfaceBinding                    *)
(*   groups             element type name -> groupResolver state           *)
(*   ones               element type name -> onePerModuleResolver state    *)
(* A resolver is a record; group and slice-group resolvers (and the two    *)
(* one-per-module resolvers) share the state kept under their element.     *)
(***************************************************************************)
NilResolver == [kind |-> "nil"]

EmptyMap == [x \in {} |-> NilResolver]

newContainer ==
    [resolvers |-> EmptyMap, interfaceBindings |-> EmptyMap,
     groups |-> EmptyMap, ones |-> EmptyMap]

\* resolver.getType()
getType(r) ==
    CASE r.kind \in {"group", "sliceGroup"} -> SliceOf(Named(r.elem))
      [] r.kind \in {"onePerModule", "mapOfOnePerModule"} -> MapOf(Named(r.elem))
      [] OTHER -> r.typ

resolverByTypeName(c, typeName) ==
    IF typeName \in DOMAIN c.resolvers
    THEN [found |-> TRUE, r |-> c.resolvers[typeName]]
    ELSE [found |-> FALSE, r |-> NilResolver]

resolverByType(c, typ) == resolverByTypeName(c, fullyQualifiedTypeName(typ))

addResolver(c, typ, r) ==
    [c EXCEPT !.resolvers = (fullyQualifiedTypeName(typ) :> r) @@ @]

addBinding(c, p) ==
    [c EXCEPT !.interfaceBindings =
        (bindingKeyFromTypeName(p.interfaceName, p.moduleKey) :> p) @@ @]

getElementType(typ) ==
    IF isManyPerContainerSliceType(typ) \/ isOnePerModuleMapType(typ)
    THEN Elem(typ)
    ELSE typ

\* the set of keys of the matches map
findImplementingTypes(c, interfaceType) ==
    { getType(c.resolvers[n]) : n \in
        { m \in DOMAIN c.resolvers :
            LET resolverType == getType(c.resolvers[m])
            IN  /\ ~isInterface(resolverType)
                /\ resolverType.k = "named"
                /\ ImplementsNames(resolverType.n, interfaceType.n) } }

\* resolveInterfaceType that does not store the implicit binding
resolveInterfaceTypeUncached(c, typ) ==
    IF ~isInterface(typ)
    THEN [res |-> NilResolver, err |-> NoErr, c |-> c]
    ELSE Let(findImplementingTypes(c, typ), LAMBDA matches :
             CASE Cardinality(matches) = 0 ->
                    [res |-> NilResolver, err |-> NoErr, c |-> c]
               [] Cardinality(matches) = 1 ->
                    [res |-> resolverByType(c, CHOOSE m \in matches : TRUE).r,
                     err |-> NoErr, c |-> c]
               [] OTHER ->
                    [res |-> NilResolver,
                     err |-> newErrMultipleImplicitInterfaceBindings(matches),
                     c |-> c])

resolveInterfaceType(c, typ) ==
    IF ~isInterface(typ)
    THEN [res |-> NilResolver, err |-> NoErr, c |-> c]
    ELSE Let(findImplementingTypes(c, typ), LAMBDA matches :
             CASE Cardinality(matches) = 0 ->
                    [res |-> NilResolver, err |-> NoErr, c |-> c]
               [] Cardinality(matches) = 1 ->
                    LET resolverType == CHOOSE m \in matches : TRUE
                        res == resolverByType(c, resolverType).r
                    IN  [res |-> res, err |-> NoErr, c |-> addResolver(c, typ, res)]
               [] OTHER ->
                    [res |-> NilResolver,
                     err |-> newErrMultipleImplicitInterfaceBindings(matches),
                     c |-> c])

\* the binding for (typ, key), else the global binding for typ, resolved
\* to the resolver registered for the implementation type
getExplicitResolver(c, typ, key) ==
    LET scoped == bindingKeyFromType(typ, key)
        global == bindingKeyFromType(typ, NoKey)
        b == c.interfaceBindings
    IN  IF scoped \notin DOMAIN b /\ global \notin DOMAIN b
        THEN [res |-> NilResolver, err |-> NoErr]
        ELSE LET pref == IF scoped \in DOMAIN b THEN b[scoped] ELSE b[global]
                 impl == resolverByTypeName(c, pref.implTypeName)
             IN  IF impl.found
                 THEN [res |-> impl.r, err |-> NoErr]
                 ELSE [res |-> NilResolver,
                       err |-> newErrNoTypeForExplicitBindingFound(pref)]

\* a group that counts as resolved from the start, with the nil slice
newGroupResolverResolved == [providers |-> <<>>, idxsInValues |-> <<>>,
                             resolved |-> TRUE, values |-> ZeroValue]

newGroupResolver == [providers |-> <<>>, idxsInValues |-> <<>>,
                     resolved |-> FALSE, values |-> ZeroValue]

newOnePerModuleResolver == [providers |-> EmptyMap, idxMap |-> EmptyMap,
                            resolved |-> FALSE, values |-> ZeroValue]

\* registers the resolver of the element type and the resolver of its
\* collection form, and returns the one registered for typ
createContainerResolver(c, elemType, typ) ==
    Let(IF isManyPerContainerType(elemType)
        THEN LET g == [c EXCEPT !.groups = (elemType.n :> newGroupResolver) @@ @]
             IN  addResolver(
                     addResolver(g, elemType, [kind |-> "group", elem |-> elemType.n]),
                     SliceOf(elemType), [kind |-> "sliceGroup", elem |-> elemType.n])
        ELSE LET o == [c EXCEPT !.ones = (elemType.n :> newOnePerModuleResolver) @@ @]
             IN  addResolver(
                     addResolver(o, elemType,
                                 [kind |-> "onePerModule", elem |-> elemType.n]),
                     MapOf(elemType),
                     [kind |-> "mapOfOnePerModule", elem |-> elemType.n]),
        LAMBDA c2 : [res |-> resolverByType(c2, typ).r, err |-> NoErr, c |-> c2])

\* getResolver that looks at the registered resolvers before the bindings
getResolverRegisteredFirst(c, typ, key) ==
    LET byType == resolverByType(c, typ)
        elemType == getElementType(typ)
    IN  IF byType.found
        THEN [res |-> byType.r, err |-> NoErr, c |-> c]
        ELSE Let(getExplicitResolver(c, typ, key), LAMBDA e :
                 IF e.err.kind # "none" \/ e.res.kind # "nil"
                 THEN [res |-> e.res, err |-> e.err, c |-> c]
                 ELSE IF elemType = typ
                 THEN resolveInterfaceType(c, typ)
                 ELSE createContainerResolver(c, elemType, typ))

getResolver(c, typ, key) ==
    Let(getExplicitResolver(c, typ, key), LAMBDA e :
        LET byType == resolverByType(c, typ)
            elemType == getElementType(typ)
        IN  IF e.err.kind # "none" \/ e.res.kind # "nil"
            THEN [res |-> e.res, err |-> e.err, c |-> c]
            ELSE IF byType.found
            THEN [res |-> byType.r, err |-> NoErr, c |-> c]
            ELSE IF elemType = typ
            THEN resolveInterfaceType(c, typ)
            ELSE createContainerResolver(c, elemType, typ))

(***************************************************************************)
(* Registration.  A descriptor is identified by its Location, the index d  *)
(* of the registration in descs: each extracted descriptor has a Location  *)
(* of its own (LocationFromPC returns a new *location).                    *)
(***************************************************************************)
\* named types that are not exported or come from an internal package
RestrictedNames == {"container", "graphviz.Attributes"}

validateInput(typ, key) ==
    IF typ.n \in RestrictedNames
    THEN Err("ErrTypeNotExported", {typ.n})
    ELSE NoErr

\* addInputTypeToGraph that wants a resolver for the input to draw the edge
addInputTypeToGraphRequired(c, typ, key) ==
    Let(getResolver(c, typ, key), LAMBDA vr :
        IF vr.err.kind = "none" /\ vr.res.kind = "nil"
              /\ typ \notin {moduleKeyType, ownModuleKeyType}
        THEN [err |-> Err(ErrMissingDependency, {fullyQualifiedTypeName(typ)}),
              c |-> vr.c]
        ELSE [err |-> vr.err, c |-> vr.c])

\* addInputTypeToGraph: looks the input's resolver up to draw the edge
addInputTypeToGraph(c, typ, key) ==
    Let(getResolver(c, typ, key), LAMBDA vr : [err |-> vr.err, c |-> vr.c])

RECURSIVE validateInputsFrom(_, _, _, _)
validateInputsFrom(c, inputs, i, key) ==
    IF i > Len(inputs)
    THEN [err |-> NoErr, c |-> c]
    ELSE LET v == validateInput(inputs[i], key)
         IN  IF v.kind # "none" THEN [err |-> v, c |-> c]
             ELSE Let(addInputTypeToGraph(c, inputs[i], key), LAMBDA g :
                      IF g.err.kind # "none" THEN g
                      ELSE validateInputsFrom(g.c, inputs, i + 1, key))

validateProviderInputs(c, inputs, key) == validateInputsFrom(c, inputs, 1, key)

hasModuleKeyParam(inputs) == \E i \in 1..Len(inputs) : inputs[i] = moduleKeyType

\* a duplicate that is noticed but not reported
duplicateDefinitionIgnored(typ) == NoErr

duplicateDefinitionError(typ) == Err(ErrDuplicateDefinition, {fullyQualifiedTypeName(typ)})

\* groupResolver.addNode
groupAddNode(c, elem, d, idx) ==
    [err |-> NoErr,
     c |-> [c EXCEPT !.groups[elem].providers = Append(@, d),
                     !.groups[elem].idxsInValues = Append(@, idx)]]

\* addNode that lets a second contribution of a module replace the first
onePerModuleAddNodeOverwrite(c, elem, d, idx, key) ==
    IF key = NoKey
    THEN [err |-> Err(ErrModuleScopeRequired, {elem}), c |-> c]
    ELSE [err |-> NoErr,
          c |-> [c EXCEPT !.ones[elem].providers = (key :> d) @@ @,
                          !.ones[elem].idxMap = (key :> idx) @@ @]]

\* onePerModuleResolver.addNode: one contribution per module, and only
\* from a provider registered in a module
onePerModuleAddNode(c, elem, d, idx, key) ==
    IF key = NoKey
    THEN [err |-> Err(ErrModuleScopeRequired, {elem}), c |-> c]
    ELSE IF key \in DOMAIN c.ones[elem].providers
    THEN [err |-> Err(ErrDuplicateModuleScope, {elem, key}), c |-> c]
    ELSE [err |-> NoErr,
          c |-> [c EXCEPT !.ones[elem].providers = (key :> d) @@ @,
                          !.ones[elem].idxMap = (key :> idx) @@ @]]

\* one output of a provider without ModuleKey input: a many-per-container
\* output (or a slice of it) goes to the group, a one-per-module output to
\* the per-module map, any other output gets a direct resolver
addSimpleOutput(c, d, typ, idx, key) ==
    LET elem == IF isManyPerContainerSliceType(typ) THEN Elem(typ) ELSE typ
        have == resolverByType(c, elem).found
    IN  IF isManyPerContainerType(elem)
        THEN Let(IF have THEN c ELSE createContainerResolver(c, elem, SliceOf(elem)).c,
                 LAMBDA c2 : groupAddNode(c2, elem.n, d, idx))
        ELSE IF isOnePerModuleType(elem)
        THEN Let(IF have THEN c ELSE createContainerResolver(c, elem, MapOf(elem)).c,
                 LAMBDA c2 : onePerModuleAddNode(c2, elem.n, d, idx, key))
        ELSE IF have
        THEN [err |-> duplicateDefinitionError(typ), c |-> c]
        ELSE [err |-> NoErr,
              c |-> addResolver(c, typ, [kind |-> "simple", d |-> d, idx |-> idx,
                                         key |-> key, typ |-> typ])]

RECURSIVE addSimpleOutputsFrom(_, _, _, _, _)
addSimpleOutputsFrom(c, d, outputs, i, key) ==
    IF i > Len(outputs)
    THEN [err |-> NoErr, c |-> c]
    ELSE Let(addSimpleOutput(c, d, outputs[i], i, key), LAMBDA r :
             IF r.err.kind # "none" THEN r
             ELSE addSimpleOutputsFrom(r.c, d, outputs, i + 1, key))

addSimpleNode(c, d, outputs, key) == addSimpleOutputsFrom(c, d, outputs, 1, key)

RECURSIVE addModuleScopedOutputsFrom(_, _, _, _)
addModuleScopedOutputsFrom(c, d, outputs, i) ==
    IF i > Len(outputs)
    THEN [err |-> NoErr, c |-> c]
    ELSE IF resolverByType(c, outputs[i]).found
    THEN [err |-> duplicateDefinitionError(outputs[i]), c |-> c]
    ELSE Let(addResolver(c, outputs[i], [kind |-> "moduleDep", d |-> d, idx |-> i,
                                         typ |-> outputs[i]]),
             LAMBDA c2 : addModuleScopedOutputsFrom(c2, d, outputs, i + 1))

addModuleScopedNode(c, d, outputs) == addModuleScopedOutputsFrom(c, d, outputs, 1)

\* addNode that loses the module key on the way to addSimpleNode
addNodeNoKey(c, d, inputs, outputs, key) ==
    Let(validateProviderInputs(c, inputs, key), LAMBDA v :
        IF v.err.kind # "none" THEN v
        ELSE IF ~hasModuleKeyParam(inputs)
        THEN addSimpleNode(v.c, d, outputs, NoKey)
        ELSE addModuleScopedNode(v.c, d, outputs))

addNode(c, d, inputs, outputs, key) ==
    Let(validateProviderInputs(c, inputs, key), LAMBDA v :
        IF v.err.kind # "none" THEN v
        ELSE IF ~hasModuleKeyParam(inputs)
        THEN addSimpleNode(v.c, d, outputs, key)
        ELSE addModuleScopedNode(v.c, d, outputs))

\* container.supply: a constant value as a direct resolver of its type
supply(c, typ) ==
    IF resolverByType(c, typ).found
    THEN [err |-> duplicateDefinitionError(typ), c |-> c]
    ELSE [err |-> NoErr,
          c |-> addResolver(c, typ, [kind |-> "supply", typ |-> typ,
                                     value |-> SuppliedValue(typ)])]

bindInterface(c, inTypeName, outTypeName, moduleName) ==
    addBinding(c, [interfaceName |-> inTypeName, implTypeName |-> outTypeName,
                   moduleKey |-> moduleName])

(***************************************************************************)
(* Configurations.  A Config is a record; Configs(c1, ..., cn) is the list *)
(* of the records applied so far.  Each suite is the set of Config values  *)
(* one test file builds its configurations from, and the output lists it   *)
(* (or a variation of it) asks Inject for.                                 *)
(***************************************************************************)
Provide(fn) == [op |-> "Provide", mod |-> NoKey, a |-> fn, b |-> ""]

ProvideInModule(m, fn) == [op |-> "ProvideInModule", mod |-> m, a |-> fn, b |-> ""]

Invoke(fn) == [op |-> "Invoke", mod |-> NoKey, a |-> fn, b |-> ""]

InvokeInModule(m, fn) == [op |-> "InvokeInModule", mod |-> m, a |-> fn, b |-> ""]

BindInterface(in, out) == [op |-> "BindInterface", mod |-> NoKey, a |-> in, b |-> out]

BindInterfaceInModule(m, in, out) ==
    [op |-> "BindInterfaceInModule", mod |-> m, a |-> in, b |-> out]

Supply(vals) == [op |-> "Supply", mod |-> NoKey, a |-> vals, b |-> ""]

\* Error(err): a Config whose apply returns err
Error(e) == [op |-> "Error", mod |-> NoKey, a |-> e, b |-> ""]

\* the value lists given to Supply, by name
Supplies ==
    [ InvokeSuite |-> <<Named("*InvokeSuite")>>,
      Modules |-> <<Named("ModuleA"), Named("ModuleB")>> ]

Suites == {"Resolution", "Invoke", "Binding", "Scenario", "Failure", "Cycle"}

Items(s) ==
    CASE s = "Resolution" ->
           { Provide("IntProvider5"), ProvideInModule("a", "IntProvider5"),
             Provide("IntToFloat"), Provide("FloatToIntStr"),
             Provide("FloatToStr"), Provide("Float32ToInt"),
             Error("ErrBadConfig") }
      [] s = "Invoke" ->
           { Provide("IntProvider5"), Provide("StringPtrProviderFoo"),
             Provide("ProvideLenModuleKey"), Supply("InvokeSuite"),
             Invoke("IntStringPointerInvoker"),
             InvokeInModule("foo", "IntStringPointerInvoker"),
             ProvideInModule("foo", "IntProvider5"),
             Invoke("IntProvider5") }
      [] s = "Binding" ->
           { Provide("ProvideMallard"), Provide("ProvideCanvasback"),
             Provide("ProvideDuckWrapper"),
             ProvideInModule("a", "ProvideModuleDuck"),
             ProvideInModule("b", "ProvideModuleDuck"),
             BindInterface("Duck", "Canvasback"),
             BindInterfaceInModule("a", "Duck", "Mallard") }
      [] s = "Scenario" ->
           { Provide("ProvideMsgClientA"),
             ProvideInModule("runtime", "ProvideKVStoreKey"),
             ProvideInModule("a", "ModuleAProvide"),
             ProvideInModule("b", "ModuleBProvide"),
             ProvideInModule("a", "ModuleBProvide"),
             Supply("Modules") }
      [] s = "Failure" ->
           { Provide("IntProvider5"), Provide("IntToFloatErr"),
             Provide("StringPtrProviderFoo"), Provide("FloatStrPtrToStr"),
             Provide("Float32ToInt"),
             ProvideInModule("", "IntProvider5"),
             InvokeInModule("", "IntStringPointerInvoker") }
      [] s = "Cycle" ->
           { Provide("ProvideStore"), Provide("ProvideCanvasback"),
             ProvideInModule("b", "ProvideMallardFromStore"),
             BindInterface("Duck", "Canvasback"),
             BindInterfaceInModule("a", "Duck", "Mallard"),
             InvokeInModule("a", "StoreInvoker") }

Requests(s) ==
    CASE s = "Resolution" -> { <<TString>>, <<TInt>>, <<TFloat64, TString>> }
      [] s = "Invoke" -> { <<>>, <<TInt>>, <<TStringPtr>> }
      [] s = "Binding" -> { <<SliceOf(Named("DuckWrapper"))>> }
      [] s = "Scenario" ->
           { <<MapOf(Named("Handler")), SliceOf(Named("Command")),
               Named("KeeperA"), Named("KeeperB")>>,
             <<SliceOf(Named("Command")), SliceOf(Named("Command"))>>,
             <<Named("KeeperB")>>,
             <<Named("Command")>>,
             <<SliceOf(Named("Command")), Named("Command")>> }
      [] s = "Failure" -> { <<TString>>, <<TStringPtr, TString>> }
      [] s = "Cycle" -> { <<>>, <<Named("Mallard")>> }

(***************************************************************************)
(* State.                                                                  *)
(***************************************************************************)
VARIABLES
    suite,        \* the test suite the configuration is drawn from
    applied,      \* the Config values applied so far, in order
    pc,           \* "config", "build", "invokers", "done" or "failed"
    err,          \* the error apply or build returned (buildContainer wraps it later)
    ctr,          \* the container's resolvers, bindings, groups and maps
    invokers,     \* container.invokers
    descs,        \* the descriptors extracted so far; the index is the Location
    cache,        \* <<d, key>> -> the values of the provider's one call
    callerStack,  \* container.callerStack
    callerMap,    \* container.callerMap, as the set of its keys
    frames,       \* the calls and loops in progress, innermost last
    requested,    \* the types of the output pointers given to Inject
    outputs,      \* the values assigned to the output pointers
    callLog,      \* the calls of provider.Fn, in order: descriptor, scope, inVals
    invIdx,       \* the next invoker to call
    checkedType,  \* the reflect.Type given to isExportedType
    checkResult,  \* what isExportedType returned for it
    builds,       \* the calls of Inject and InjectDebug in progress
    files,        \* the files of the working directory
    moduleKeyContext,  \* container.moduleKeyContext: module name -> interned key
    moduleKeys,   \* the module keys handed to provide, invoke and addBinding
    graph         \* the status of the graph nodes of the Locations called

\* the state of one container and its build
containerVars == <<suite, applied, pc, err, ctr, invokers, descs, cache,
                   callerStack, callerMap, frames, requested, outputs, callLog,
                   invIdx,
                   moduleKeyContext, moduleKeys, graph>>

\* the state outside the container: the type check and the Inject calls
aside == <<checkedType, checkResult, builds, files>>

keyVars == <<moduleKeyContext, moduleKeys>>

vars == <<containerVars, aside>>

\* the graph with no node marked: a node is created in the unused style
NoNodes == [n \in {} |-> "unused"]

\* no type was checked
NoType == [kind |-> "invalid", name |-> <<>>, pkg |-> <<>>, in |-> <<>>, out |-> <<>>]

Pending == [kind |-> "pending", info |-> {}]

Init ==
    /\ suite \in Suites
    /\ applied = <<>>
    /\ pc = "config"
    /\ err = NoErr
    /\ ctr = newContainer
    /\ invokers = <<>>
    /\ descs = <<>>
    /\ cache = EmptyMap
    /\ callerStack = <<>>
    /\ callerMap = {}
    /\ frames = <<>>
    /\ requested = <<>>
    /\ outputs = <<>>
    /\ callLog = <<>>
    /\ invIdx = 1
    /\ checkedType = NoType
    /\ moduleKeyContext = EmptyMap /\ moduleKeys = <<>>
    /\ graph = NoNodes
    /\ checkResult = Pending
    /\ builds = <<>>
    /\ files = <<>>

resolutionVars == <<cache, callerStack, callerMap, frames, requested, outputs,
                    callLog, invIdx, graph>>

Applied(item) == \E i \in 1..Len(applied) : applied[i] = item

\* the Config values that may come next in the list
CanApply(item) ==
    /\ pc = "config"
    /\ Len(applied) < MaxConfig
    /\ item \in Items(suite)
    /\ ~Applied(item)

\* the outcome of one Config's apply when Configs goes on after an error
FailContinue(e) == /\ err' = e
                   /\ pc' = pc

\* the outcome of one Config's apply
Fail(e) == /\ err' = e
           /\ pc' = IF e.kind = "none" THEN pc ELSE "failed"

\* extractProviderDescriptor / extractInvokerDescriptor
Descriptor(fn, key, optional) ==
    [fn |-> fn, key |-> key, in |-> Funcs[fn].in, out |-> Funcs[fn].out,
     optional |-> optional]

\* provide(ctr, key, providers) for one provider
provide(item, key) ==
    LET d == Len(descs) + 1
        desc == Descriptor(item.a, key, FALSE)
    IN  \E r \in {addNode(ctr, d, desc.in, desc.out, key)} :
            /\ descs' = Append(descs, desc)
            /\ ctr' = r.c
            /\ Fail(r.err)
            /\ UNCHANGED invokers

\* invoke that extracts the descriptor as a provider's: inputs required
invokeRequired(item, key) ==
    LET d == Len(descs) + 1
        desc == Descriptor(item.a, key, FALSE)
    IN  /\ descs' = Append(descs, desc)
        /\ IF Len(desc.out) > 0
           THEN /\ Fail(Err(ErrInvalidInvoker, {item.a}))
                /\ UNCHANGED invokers
           ELSE /\ invokers' = Append(invokers, [fn |-> d, modKey |-> key])
                /\ Fail(NoErr)
        /\ UNCHANGED ctr

\* invoke that puts the new invoker in front of the registered ones
invokeInFront(item, key) ==
    LET d == Len(descs) + 1
        desc == Descriptor(item.a, key, TRUE)
    IN  /\ descs' = Append(descs, desc)
        /\ IF Len(desc.out) > 0
           THEN /\ Fail(Err(ErrInvalidInvoker, {item.a}))
                /\ UNCHANGED invokers
           ELSE /\ invokers' = <<[fn |-> d, modKey |-> key]>> \o invokers
                /\ Fail(NoErr)
        /\ UNCHANGED ctr

\* invoke that reports an invoker with outputs and registers it all the same
invokeKeepsInvalid(item, key) ==
    LET d == Len(descs) + 1
        desc == Descriptor(item.a, key, TRUE)
    IN  /\ descs' = Append(descs, desc)
        /\ invokers' = Append(invokers, [fn |-> d, modKey |-> key])
        /\ IF Len(desc.out) > 0
           THEN Fail(Err(ErrInvalidInvoker, {item.a}))
           ELSE Fail(NoErr)
        /\ UNCHANGED ctr

\* invoke(ctr, key, invokers) for one invoker, with container.addInvoker
invoke(item, key) ==
    LET d == Len(descs) + 1
        desc == Descriptor(item.a, key, TRUE)
    IN  /\ descs' = Append(descs, desc)
        /\ IF Len(desc.out) > 0
           THEN /\ Fail(Err(ErrInvalidInvoker, {item.a}))
                /\ UNCHANGED invokers
           ELSE /\ invokers' = Append(invokers, [fn |-> d, modKey |-> key])
                /\ Fail(NoErr)
        /\ UNCHANGED ctr

\* a module key that is no key handed out before
newModuleKey == Len(moduleKeys) + 1

\* ModuleKeyContext.createOrGetModuleKey(moduleName), called for entry point by
createOrGetModuleKey(by, moduleName) ==
    IF moduleName \in DOMAIN moduleKeyContext
    THEN /\ moduleKeys' = Append(moduleKeys, [by |-> by, name |-> moduleName,
                                               id |-> moduleKeyContext[moduleName]])
         /\ UNCHANGED moduleKeyContext
    ELSE /\ moduleKeys' = Append(moduleKeys, [by |-> by, name |-> moduleName,
                                               id |-> newModuleKey])
         /\ moduleKeyContext' = (moduleName :> newModuleKey) @@ moduleKeyContext

\* bindInterface: mk = &moduleKey{name: moduleName} for a module name
bindInterfaceModuleKey(by, moduleName) ==
    IF moduleName # ""
    THEN /\ moduleKeys' = Append(moduleKeys, [by |-> by, name |-> moduleName,
                                               id |-> newModuleKey])
         /\ UNCHANGED moduleKeyContext
    ELSE UNCHANGED keyVars

ApplyProvide ==
    \E item \in Items(suite) :
        /\ CanApply(item)
        /\ item.op = "Provide"
        /\ applied' = Append(applied, item)
        /\ provide(item, NoKey)
        /\ UNCHANGED <<aside, keyVars, suite, resolutionVars>>

\* ProvideInModule that asks for the module key before it looks at the name
ApplyProvideInModuleKeyFirst ==
    \E item \in Items(suite) :
        /\ CanApply(item)
        /\ item.op = "ProvideInModule"
        /\ applied' = Append(applied, item)
        /\ createOrGetModuleKey(item.op, item.mod)
        /\ IF item.mod = ""
           THEN /\ Fail(Err(ErrEmptyModuleName, {}))
                /\ UNCHANGED <<ctr, descs, invokers>>
           ELSE provide(item, item.mod)
        /\ UNCHANGED <<aside, suite, resolutionVars>>

ApplyProvideInModule ==
    \E item \in Items(suite) :
        /\ CanApply(item)
        /\ item.op = "ProvideInModule"
        /\ applied' = Append(applied, item)
        /\ IF item.mod = ""
           THEN /\ Fail(Err(ErrEmptyModuleName, {}))
                /\ UNCHANGED <<ctr, descs, invokers, keyVars>>
           ELSE /\ createOrGetModuleKey(item.op, item.mod)
                /\ provide(item, item.mod)
        /\ UNCHANGED <<aside, suite, resolutionVars>>

ApplyInvoke ==
    \E item \in Items(suite) :
        /\ CanApply(item)
        /\ item.op = "Invoke"
        /\ applied' = Append(applied, item)
        /\ invoke(item, NoKey)
        /\ UNCHANGED <<aside, keyVars, suite, resolutionVars>>

ApplyInvokeInModule ==
    \E item \in Items(suite) :
        /\ CanApply(item)
        /\ item.op = "InvokeInModule"
        /\ applied' = Append(applied, item)
        /\ IF item.mod = ""
           THEN /\ Fail(Err(ErrEmptyModuleName, {}))
                /\ UNCHANGED <<ctr, descs, invokers, keyVars>>
           ELSE /\ createOrGetModuleKey(item.op, item.mod)
                /\ invoke(item, item.mod)
        /\ UNCHANGED <<aside, suite, resolutionVars>>

ApplyBindInterface ==
    \E item \in Items(suite) :
        /\ CanApply(item)
        /\ item.op \in {"BindInterface", "BindInterfaceInModule"}
        /\ applied' = Append(applied, item)
        /\ bindInterfaceModuleKey(item.op, item.mod)
        /\ ctr' = bindInterface(ctr, item.a, item.b, item.mod)
        /\ Fail(NoErr)
        /\ UNCHANGED <<aside, suite, descs, invokers, resolutionVars>>

RECURSIVE supplyFrom(_, _, _)
supplyFrom(c, vals, i) ==
    IF i > Len(vals)
    THEN [err |-> NoErr, c |-> c]
    ELSE Let(supply(c, vals[i]), LAMBDA r :
             IF r.err.kind # "none" THEN r ELSE supplyFrom(r.c, vals, i + 1))

ApplySupply ==
    \E item \in Items(suite) :
        /\ CanApply(item)
        /\ item.op = "Supply"
        /\ applied' = Append(applied, item)
        /\ \E r \in {supplyFrom(ctr, Supplies[item.a], 1)} :
               ctr' = r.c /\ Fail(r.err)
        /\ UNCHANGED <<aside, keyVars, suite, descs, invokers, resolutionVars>>

ApplyError ==
    \E item \in Items(suite) :
        /\ CanApply(item)
        /\ item.op = "Error"
        /\ applied' = Append(applied, item)
        /\ Fail(Err(item.a, {}))
        /\ UNCHANGED <<aside, keyVars, suite, ctr, descs, invokers, resolutionVars>>

(***************************************************************************)
(* Resolution.  The recursion of build, call, resolveInputs, resolve and   *)
(* the resolvers' resolve methods is kept as a stack of frames:            *)
(*   call   c.call(provider, key): d, key, the next input i, inVals,       *)
(*          entered (the cycle check passed and the caller was pushed),    *)
(*          want (the output index the input being resolved takes)         *)
(*   group  groupResolver.resolveValues: elem, the next provider i, acc    *)
(*   map    the one-per-module loop: elem, todo, cur, acc                  *)
(***************************************************************************)
CallFrame(d, key) ==
    [kind |-> "call", d |-> d, key |-> key, i |-> 1, inVals |-> <<>>,
     entered |-> FALSE, want |-> 0]

GroupFrame(elem) == [kind |-> "group", elem |-> elem, i |-> 1, acc |-> <<>>]

MapFrame(elem, keys) ==
    [kind |-> "map", elem |-> elem, todo |-> keys, cur |-> NoKey, acc |-> {}]

Top == frames[Len(frames)]

Below == SubSeq(frames, 1, Len(frames) - 1)

\* a provider that does not remember that it was called
CachedNever(d, key) == FALSE

Cached(d, key) == <<d, key>> \in DOMAIN cache

\* what c.resolve(in, key, caller) does before anything is called:
\* a value, an error, or the call or loop that has to run first
resolve(c, typ, key, optional) ==
    Let(getResolver(c, typ, key), LAMBDA vr :
    LET r == vr.res
        Val(v) == [tag |-> "value", v |-> v, err |-> NoErr, c |-> vr.c]
        Bad(e) == [tag |-> "error", v |-> ZeroValue, err |-> e, c |-> vr.c]
        Call(d, k, idx) ==
            IF Cached(d, k)
            THEN Val(cache[<<d, k>>][idx])
            ELSE [tag |-> "call", d |-> d, key |-> k, idx |-> idx, err |-> NoErr,
                  c |-> vr.c]
    IN  IF typ \in {moduleKeyType, ownModuleKeyType}
        THEN IF key = NoKey
             THEN [tag |-> "error", v |-> ZeroValue,
                   err |-> Err(ErrModuleScopeRequired, {typ.n}), c |-> c]
             ELSE [tag |-> "value", v |-> ModuleKeyValue(key), err |-> NoErr, c |-> c]
        ELSE IF vr.err.kind # "none" THEN Bad(vr.err)
        ELSE CASE r.kind = "nil" ->
                    IF optional THEN Val(ZeroValue)
                    ELSE Bad(Err(ErrMissingDependency, {fullyQualifiedTypeName(typ)}))
               [] r.kind = "simple" -> Call(r.d, r.key, r.idx)
               [] r.kind = "moduleDep" ->
                    IF key = NoKey
                    THEN Bad(Err(ErrModuleScopeRequired, {typ.n}))
                    ELSE Call(r.d, key, r.idx)
               [] r.kind = "supply" -> Val(r.value)
               [] r.kind = "group" ->
                    Bad(Err(ErrInvalidManyPerContainerType, {r.elem}))
               [] r.kind = "sliceGroup" ->
                    IF vr.c.groups[r.elem].resolved
                    THEN Val(vr.c.groups[r.elem].values)
                    ELSE [tag |-> "group", elem |-> r.elem, err |-> NoErr, c |-> vr.c]
               [] r.kind = "onePerModule" ->
                    Bad(Err(ErrInvalidOnePerModuleType, {r.elem}))
               [] r.kind = "mapOfOnePerModule" ->
                    IF vr.c.ones[r.elem].resolved
                    THEN Val(vr.c.ones[r.elem].values)
                    ELSE [tag |-> "map", elem |-> r.elem, err |-> NoErr, c |-> vr.c])

\* locationGraphNode: the node of a Location is found by the Location's name
locationGraphNode(loc) == descs[loc].fn

\* the status the colour of a node stands for
NodeStatus(g, node) == IF node \in DOMAIN g THEN g[node] ELSE "unused"

\* a mark that leaves a node that is marked used as it is
markGraphNodeAsFailedUnlessUsed(g, node) ==
    IF NodeStatus(g, node) = "used" THEN g ELSE (node :> "failed") @@ g

markGraphNodeAsFailed(g, node) == (node :> "failed") @@ g

markGraphNodeAsUsed(g, node) == (node :> "used") @@ g

\* a check that looks at the innermost active caller only
checkCyclicDependencyTop(loc) ==
    IF callerStack # <<>> /\ callerStack[Len(callerStack)] = loc
    THEN Err(ErrCyclicDependency, {descs[loc].fn})
    ELSE NoErr

\* a check that tells the calls of a Location for different scopes apart
checkCyclicDependencySameScope(loc) ==
    IF \E i \in 1..(Len(frames) - 1) :
          /\ frames[i].kind = "call"
          /\ frames[i].entered
          /\ frames[i].d = loc
          /\ frames[i].key = frames[Len(frames)].key
    THEN Err(ErrCyclicDependency, {descs[loc].fn})
    ELSE NoErr

checkCyclicDependency(loc) ==
    IF loc \in callerMap THEN Err(ErrCyclicDependency, {descs[loc].fn}) ELSE NoErr

\* a push that leaves the map of active callers alone
pushCallerStackOnly(loc) ==
    /\ callerMap' = callerMap
    /\ callerStack' = Append(callerStack, loc)

pushCaller(loc) ==
    /\ callerMap' = callerMap \cup {loc}
    /\ callerStack' = Append(callerStack, loc)

\* a pop that takes the oldest caller off the stack
popCallerOldest(loc) ==
    /\ callerMap' = callerMap \ {loc}
    /\ callerStack' = Tail(callerStack)

popCaller(loc) ==
    /\ callerMap' = callerMap \ {loc}
    /\ callerStack' = SubSeq(callerStack, 1, Len(callerStack) - 1)

\* call, up to the push of the caller: the cycle check
CallEnter ==
    /\ pc \in {"build", "invokers"}
    /\ err.kind = "none"
    /\ frames # <<>>
    /\ Top.kind = "call"
    /\ ~Top.entered
    /\ graph' = markGraphNodeAsFailed(graph, locationGraphNode(Top.d))
    /\ LET e == checkCyclicDependency(Top.d)
       IN  IF e.kind # "none"
           THEN /\ err' = e
                /\ UNCHANGED <<frames, callerMap, callerStack>>
           ELSE /\ pushCaller(Top.d)
                /\ frames' = [frames EXCEPT ![Len(frames)].entered = TRUE]
                /\ UNCHANGED err
    /\ UNCHANGED <<aside, keyVars, suite, applied, pc, ctr, invokers, descs, cache, requested,
                   outputs, callLog, invIdx>>

\* an input value put in front of those resolved before it
GiveInputInFront(fs, v) ==
    [fs EXCEPT ![Len(fs)].inVals = <<v>> \o @, ![Len(fs)].i = @ + 1]

\* the frame stack after input value v went to the call frame on top of fs
GiveInput(fs, v) ==
    [fs EXCEPT ![Len(fs)].inVals = Append(@, v), ![Len(fs)].i = @ + 1]

\* resolveInputs: one input of the provider being called
ResolveInput ==
    /\ pc \in {"build", "invokers"}
    /\ err.kind = "none"
    /\ frames # <<>>
    /\ Top.kind = "call"
    /\ Top.entered
    /\ Top.i <= Len(descs[Top.d].in)
    /\ \E r \in {resolve(ctr, descs[Top.d].in[Top.i], Top.key, descs[Top.d].optional)} :
           /\ ctr' = r.c
           /\ err' = r.err
           /\ frames' =
                CASE r.tag = "value" -> GiveInput(frames, r.v)
                  [] r.tag = "error" -> frames
                  [] r.tag = "call" ->
                       Append([frames EXCEPT ![Len(frames)].want = r.idx],
                              CallFrame(r.d, r.key))
                  [] r.tag = "group" -> Append(frames, GroupFrame(r.elem))
                  [] r.tag = "map" ->
                       Append(frames,
                              MapFrame(r.elem, DOMAIN r.c.ones[r.elem].providers))
    /\ UNCHANGED <<aside, keyVars, graph, suite, applied, pc, invokers, descs, cache, callerStack,
                   callerMap, requested, outputs, callLog, invIdx>>

\* appendValue without the splice
appendValueWhole(slice, value) == Append(slice, value)

\* groupResolver.appendValue: a slice is spliced, a single value appended
appendValue(slice, value) ==
    IF value.by = "[]" THEN slice \o value.elems ELSE Append(slice, value)

\* Return that keeps the entries of a one-per-module map in the order the
\* modules were visited
ReturnInVisitOrder(fs, values) ==
    LET p == fs[Len(fs)]
    IN  CASE p.kind = "call" -> GiveInput(fs, values[p.want])
          [] p.kind = "group" ->
               [fs EXCEPT ![Len(fs)].acc =
                              appendValue(@, values[ctr.groups[p.elem].idxsInValues[p.i]]),
                          ![Len(fs)].i = @ + 1]
          [] p.kind = "map" ->
               [fs EXCEPT ![Len(fs)].acc =
                              @ \cup {<<p.cur, values[ctr.ones[p.elem].idxMap[p.cur]],
                                        Cardinality(@) + 1>>},
                          ![Len(fs)].todo = @ \ {p.cur}]

\* the frames fs once the call on top of them returned values
Return(fs, values) ==
    LET p == fs[Len(fs)]
    IN  CASE p.kind = "call" -> GiveInput(fs, values[p.want])
          [] p.kind = "group" ->
               [fs EXCEPT ![Len(fs)].acc =
                              appendValue(@, values[ctr.groups[p.elem].idxsInValues[p.i]]),
                          ![Len(fs)].i = @ + 1]
          [] p.kind = "map" ->
               [fs EXCEPT ![Len(fs)].acc =
                              @ \cup {<<p.cur, values[ctr.ones[p.elem].idxMap[p.cur]]>>},
                          ![Len(fs)].todo = @ \ {p.cur}]

\* the values the function of descriptor desc returns for inVals
DescValues(desc, inVals) ==
    IF desc.fn = "build" THEN <<>> ELSE FnValues(desc.fn, inVals)

\* the error of provider.Fn(inVals), wrapped by call with the Location
ProviderError(desc) ==
    IF desc.fn \in FailingFuncs THEN Err(ErrProviderCall, {desc.fn}) ELSE NoErr

\* call, once every input is resolved: provider.Fn(inVals), which fails,
\* and the return of the error
CallProviderFails ==
    /\ pc \in {"build", "invokers"}
    /\ err.kind = "none"
    /\ frames # <<>>
    /\ Top.kind = "call"
    /\ Top.entered
    /\ Top.i > Len(descs[Top.d].in)
    /\ ProviderError(descs[Top.d]).kind # "none"
    /\ callLog' = Append(callLog, [d |-> Top.d, key |-> Top.key, in |-> Top.inVals])
    /\ err' = ProviderError(descs[Top.d])
    /\ UNCHANGED <<aside, keyVars, graph, suite, applied, pc, ctr, invokers, descs, cache, callerStack,
                   callerMap, frames, requested, outputs, invIdx>>

\* call, once every input is resolved: provider.Fn(inVals), the deferred
\* popCaller, and the caller's use of the returned values
CallProvider ==
    /\ pc \in {"build", "invokers"}
    /\ err.kind = "none"
    /\ frames # <<>>
    /\ Top.kind = "call"
    /\ Top.entered
    /\ Top.i > Len(descs[Top.d].in)
    /\ ProviderError(descs[Top.d]).kind = "none"
    /\ \E values \in {DescValues(descs[Top.d], Top.inVals)} :
           /\ callLog' = Append(callLog, [d |-> Top.d, key |-> Top.key, in |-> Top.inVals])
           /\ popCaller(Top.d)
           /\ IF Below = <<>>
              THEN /\ frames' = <<>>
                   /\ IF descs[Top.d].fn = "build"
                      THEN /\ outputs' = Top.inVals
                           /\ pc' = "invokers"
                           /\ UNCHANGED invIdx
                      ELSE /\ invIdx' = invIdx + 1
                           /\ UNCHANGED <<outputs, pc>>
                   /\ UNCHANGED cache
              ELSE /\ frames' = Return(Below, values)
                   /\ cache' = (<<Top.d, Top.key>> :> values) @@ cache
                   /\ UNCHANGED <<outputs, pc, invIdx>>
    /\ graph' = markGraphNodeAsUsed(graph, locationGraphNode(Top.d))
    /\ UNCHANGED <<aside, keyVars, suite, applied, err, ctr, invokers, descs, requested>>

\* groupResolver.resolveValues: the next provider of the group
GroupResolveNext ==
    /\ pc \in {"build", "invokers"}
    /\ err.kind = "none"
    /\ frames # <<>>
    /\ Top.kind = "group"
    /\ Top.i <= Len(ctr.groups[Top.elem].providers)
    /\ LET g == ctr.groups[Top.elem]
           d == g.providers[Top.i]
           k == descs[d].key
       IN  IF Cached(d, k)
           THEN frames' = Return(frames, cache[<<d, k>>])
           ELSE frames' = Append(frames, CallFrame(d, k))
    /\ UNCHANGED <<aside, keyVars, graph, suite, applied, pc, err, ctr, invokers, descs, cache,
                   callerStack, callerMap, requested, outputs, callLog, invIdx>>

\* the end of the loop that keeps the values and not the flag
GroupFinishUnresolved ==
    /\ pc \in {"build", "invokers"}
    /\ err.kind = "none"
    /\ frames # <<>>
    /\ Top.kind = "group"
    /\ Top.i > Len(ctr.groups[Top.elem].providers)
    /\ ctr' = [ctr EXCEPT !.groups[Top.elem].values = SliceValue(Top.acc)]
    /\ frames' = GiveInput(Below, SliceValue(Top.acc))
    /\ UNCHANGED <<aside, keyVars, graph, suite, applied, pc, err, invokers, descs, cache, callerStack,
                   callerMap, requested, outputs, callLog, invIdx>>

\* groupResolver.resolveValues, after the loop, and sliceGroupResolver.resolve
GroupFinish ==
    /\ pc \in {"build", "invokers"}
    /\ err.kind = "none"
    /\ frames # <<>>
    /\ Top.kind = "group"
    /\ Top.i > Len(ctr.groups[Top.elem].providers)
    /\ ctr' = [ctr EXCEPT !.groups[Top.elem].values = SliceValue(Top.acc),
                          !.groups[Top.elem].resolved = TRUE]
    /\ frames' = GiveInput(Below, SliceValue(Top.acc))
    /\ UNCHANGED <<aside, keyVars, graph, suite, applied, pc, err, invokers, descs, cache, callerStack,
                   callerMap, requested, outputs, callLog, invIdx>>

\* the one-per-module loop: the provider of any module not yet visited
\* (the loop ranges over a Go map)
MapResolveNext ==
    /\ pc \in {"build", "invokers"}
    /\ err.kind = "none"
    /\ frames # <<>>
    /\ Top.kind = "map"
    /\ \E key \in Top.todo :
          LET d == ctr.ones[Top.elem].providers[key]
              k == descs[d].key
              cur == [frames EXCEPT ![Len(frames)].cur = key]
          IN  IF Cached(d, k)
              THEN frames' = Return(cur, cache[<<d, k>>])
              ELSE frames' = Append(cur, CallFrame(d, k))
    /\ UNCHANGED <<aside, keyVars, graph, suite, applied, pc, err, ctr, invokers, descs, cache,
                   callerStack, callerMap, requested, outputs, callLog, invIdx>>

MapFinish ==
    /\ pc \in {"build", "invokers"}
    /\ err.kind = "none"
    /\ frames # <<>>
    /\ Top.kind = "map"
    /\ Top.todo = {}
    /\ ctr' = [ctr EXCEPT !.ones[Top.elem].values = MapValue(Top.acc),
                          !.ones[Top.elem].resolved = TRUE]
    /\ frames' = GiveInput(Below, MapValue(Top.acc))
    /\ UNCHANGED <<aside, keyVars, graph, suite, applied, pc, err, invokers, descs, cache, callerStack,
                   callerMap, requested, outputs, callLog, invIdx>>

\* an error return that leaves the caller on the stack
UnwindKeepsCaller ==
    /\ pc \in {"build", "invokers"}
    /\ err.kind # "none"
    /\ frames # <<>>
    /\ frames' = Below
    /\ UNCHANGED <<callerMap, callerStack>>
    /\ pc' = IF Below = <<>> THEN "failed" ELSE pc
    /\ UNCHANGED <<aside, keyVars, graph, suite, applied, err, ctr, invokers, descs, cache, requested,
                   outputs, callLog, invIdx>>

\* an error returns through every call and loop in progress; a call that
\* pushed its caller pops it (defer c.popCaller(loc))
Unwind ==
    /\ pc \in {"build", "invokers"}
    /\ err.kind # "none"
    /\ frames # <<>>
    /\ frames' = Below
    /\ IF Top.kind = "call" /\ Top.entered
       THEN popCaller(Top.d)
       ELSE UNCHANGED <<callerMap, callerStack>>
    /\ pc' = IF Below = <<>> THEN "failed" ELSE pc
    /\ UNCHANGED <<aside, keyVars, graph, suite, applied, err, ctr, invokers, descs, cache, requested,
                   outputs, callLog, invIdx>>

\* container.build: the outputs are the inputs of a descriptor of the
\* build's own, registered in global scope and called
StartBuild ==
    /\ pc = "config"
    /\ \E req \in Requests(suite) :
          LET d == Len(descs) + 1
              desc == [fn |-> "build", key |-> NoKey, in |-> req, out |-> <<>>,
                       optional |-> FALSE]
          IN  \E r \in {addNode(ctr, d, req, <<>>, NoKey)} :
              /\ descs' = Append(descs, desc)
              /\ requested' = req
              /\ ctr' = r.c
              /\ err' = r.err
              /\ IF r.err.kind # "none"
                 THEN pc' = "failed" /\ UNCHANGED frames
                 ELSE pc' = "build" /\ frames' = <<CallFrame(d, NoKey)>>
    /\ UNCHANGED <<aside, keyVars, graph, suite, applied, invokers, cache, callerStack, callerMap,
                   outputs, callLog, invIdx>>

\* build, after the outputs: the next invoker
CallInvoker ==
    /\ pc = "invokers"
    /\ err.kind = "none"
    /\ frames = <<>>
    /\ invIdx <= Len(invokers)
    /\ frames' = <<CallFrame(invokers[invIdx].fn, invokers[invIdx].modKey)>>
    /\ UNCHANGED <<aside, keyVars, graph, suite, applied, pc, err, ctr, invokers, descs, cache,
                   callerStack, callerMap, requested, outputs, callLog, invIdx>>

BuildDone ==
    /\ pc = "invokers"
    /\ err.kind = "none"
    /\ frames = <<>>
    /\ invIdx > Len(invokers)
    /\ pc' = "done"
    /\ UNCHANGED <<aside, keyVars, graph, suite, applied, err, ctr, invokers, descs, cache, callerStack,
                   callerMap, frames, requested, outputs, callLog, invIdx>>

Next ==
    \/ ApplyProvide
    \/ ApplyProvideInModule
    \/ ApplyInvoke
    \/ ApplyInvokeInModule
    \/ ApplyBindInterface
    \/ ApplySupply
    \/ ApplyError
    \/ StartBuild
    \/ CallEnter
    \/ ResolveInput
    \/ CallProvider
    \/ CallProviderFails
    \/ GroupResolveNext
    \/ GroupFinish
    \/ MapResolveNext
    \/ MapFinish
    \/ Unwind
    \/ CallInvoker
    \/ BuildDone

Spec == Init /\ [][Next]_vars

\* Inject runs on the calling thread to completion, with no suspension
\* point: a step that can be taken is taken
SpecLive == Init /\ [][Next]_vars /\ WF_vars(Next)

(***************************************************************************)
(* The type visibility check.  A reflect.Type is a record: its Kind, its   *)
(* Name and PkgPath as sequences of characters (both empty for a type      *)
(* literal, PkgPath empty for a predeclared type), and the types it is     *)
(* made of: out holds the element type, in the key type of a map, in and   *)
(* out the parameters and results of a function.                           *)
(***************************************************************************)
MaxDepth == 2

GoBuiltin(kind, name) ==
    [kind |-> kind, name |-> name, pkg |-> <<>>, in |-> <<>>, out |-> <<>>]

GoNamed(kind, name, pkg, elems) ==
    [kind |-> kind, name |-> name, pkg |-> pkg, in |-> <<>>, out |-> elems]

GoElemType(kind, elem) ==
    [kind |-> kind, name |-> <<>>, pkg |-> <<>>, in |-> <<>>, out |-> <<elem>>]

GoMap(key, elem) ==
    [kind |-> "map", name |-> <<>>, pkg |-> <<>>, in |-> <<key>>, out |-> <<elem>>]

GoFunc(ins, outs) ==
    [kind |-> "func", name |-> <<>>, pkg |-> <<>>, in |-> ins, out |-> outs]

\* a struct type literal: its fields are in out
GoStruct(fields) ==
    [kind |-> "struct", name |-> <<>>, pkg |-> <<>>, in |-> <<>>, out |-> fields]

\* package paths
slash == <<"/">>

depinjectPath == <<"d", "i">>

internalWord == <<"i", "n", "t", "e", "r", "n", "a", "l">>

graphvizPath == depinjectPath \o slash \o internalWord \o slash \o <<"g", "v">>

internalsPath == depinjectPath \o slash \o internalWord \o <<"s">>

\* the types of the tests, and named types of the other shapes
tInt == GoBuiltin("int", <<"i", "n", "t">>)

tIn == GoNamed("struct", <<"I", "n">>, depinjectPath, <<>>)

tFileMode == GoNamed("uint32", <<"F", "i", "l", "e", "M", "o", "d", "e">>,
                     <<"o", "s">>, <<>>)

tContainer == GoNamed("struct", <<"c", "o", "n", "t", "a", "i", "n", "e", "r">>,
                      depinjectPath, <<>>)

tAttributes == GoNamed("map", <<"A", "t", "t", "r", "i", "b", "u", "t", "e", "s">>,
                       graphvizPath, <<>>)

\* a type of cgo's: type _Ctype_int int32
tCtypeInt == GoNamed("int32", <<"_", "C", "t", "y", "p", "e", "_", "i", "n", "t">>,
                     <<"m", "a", "i", "n">>, <<>>)

\* an exported type of a package whose path has internal inside a segment
tInternals == GoNamed("struct", <<"T">>, internalsPath, <<>>)

\* an exported slice type of a public package with elements of an internal one
tAttributesList == GoNamed("slice", <<"L", "i", "s", "t">>, depinjectPath,
                           <<tAttributes>>)

\* struct{ c container }
tStructLiteral == GoStruct(<<tContainer>>)

BaseTypes == { tInt, tIn, tFileMode, tContainer, tAttributes, tCtypeInt,
               tInternals, tAttributesList, tStructLiteral }

\* the types built from the base types in at most n steps
RECURSIVE TypesUpTo(_)
TypesUpTo(n) ==
    IF n = 0 THEN BaseTypes
    ELSE LET sub == TypesUpTo(n - 1)
             few(set) == {<<>>} \cup { <<t>> : t \in set }
         IN  BaseTypes
             \cup { GoElemType(k, t) : k \in {"array", "slice", "chan", "ptr"}, t \in sub }
             \cup { GoMap(k, t) : k \in BaseTypes, t \in sub }
             \cup { GoFunc(ins, outs) : ins \in few(BaseTypes), outs \in few(sub) }

LowerLetters ==
    { "a", "b", "c", "d", "e", "f", "g", "h", "i", "j", "k", "l", "m", "n", "o",
      "p", "q", "r", "s", "t", "u", "v", "w", "x", "y", "z" }

UpperLetters ==
    { "A", "B", "C", "D", "E", "F", "G", "H", "I", "J", "K", "L", "M", "N", "O",
      "P", "Q", "R", "S", "T", "U", "V", "W", "X", "Y", "Z" }

\* strings.Split(s, "/"), with cur the segment being read
RECURSIVE SplitFrom(_, _, _)
SplitFrom(s, i, cur) ==
    IF i > Len(s) THEN <<cur>>
    ELSE IF s[i] = "/" THEN <<cur>> \o SplitFrom(s, i + 1, <<>>)
    ELSE SplitFrom(s, i + 1, Append(cur, s[i]))

Split(s) == SplitFrom(s, 1, <<>>)

ErrTypeNotExported == "ErrTypeNotExported"

ErrInternalPackage == "ErrInternalPackage"

isNamedType(t) == t.name # <<>> /\ t.pkg # <<>>

isExported(name) == name[1] \notin LowerLetters

isInternalPackage(pkgPath) ==
    \E i \in 1..Len(Split(pkgPath)) : Split(pkgPath)[i] = internalWord

checkNamedType(t) ==
    IF ~isExported(t.name) THEN Err(ErrTypeNotExported, {t})
    ELSE IF isInternalPackage(t.pkg) THEN Err(ErrInternalPackage, {t})
    ELSE NoErr

RECURSIVE isExportedType(_)
RECURSIVE checkEach(_, _)

\* the first error among the types of list from position i on
checkEach(list, i) ==
    IF i > Len(list) THEN NoErr
    ELSE Let(isExportedType(list[i]), LAMBDA e :
             IF e.kind # "none" THEN e ELSE checkEach(list, i + 1))

checkFuncType(t) ==
    Let(checkEach(t.in, 1), LAMBDA e :
        IF e.kind # "none" THEN e ELSE checkEach(t.out, 1))

checkCompositeType(t) ==
    CASE t.kind \in {"array", "slice", "chan", "ptr"} -> isExportedType(t.out[1])
      [] t.kind = "map" ->
           Let(isExportedType(t.in[1]), LAMBDA e :
               IF e.kind # "none" THEN e ELSE isExportedType(t.out[1]))
      [] t.kind = "func" -> checkFuncType(t)
      [] OTHER -> NoErr

isExportedType(t) ==
    IF isNamedType(t) THEN checkNamedType(t) ELSE checkCompositeType(t)

\* the type check applied to any type of the bounded universe
InitTypes ==
    /\ checkedType \in TypesUpTo(MaxDepth)
    /\ checkResult = Pending
    /\ moduleKeyContext = EmptyMap /\ moduleKeys = <<>>
    /\ graph = NoNodes
    /\ suite = "Resolution"
    /\ applied = <<>> /\ pc = "config" /\ err = NoErr /\ ctr = newContainer
    /\ invokers = <<>> /\ descs = <<>> /\ cache = EmptyMap
    /\ callerStack = <<>> /\ callerMap = {} /\ frames = <<>>
    /\ requested = <<>> /\ outputs = <<>> /\ callLog = <<>> /\ invIdx = 1
    /\ builds = <<>>
    /\ files = <<>>

CheckType ==
    /\ checkResult = Pending
    /\ checkResult' = isExportedType(checkedType)
    /\ UNCHANGED <<containerVars, checkedType, builds, files>>

NextTypes == CheckType

SpecTypes == InitTypes /\ [][NextTypes]_vars

(***************************************************************************)
(* Inject and InjectDebug.  A DebugOption is a record; applyConfig is its  *)
(* effect on the debugConfig of one call.  builds[b] is the state of call  *)
(* b of runInjection: its option, its debugConfig, whether its container   *)
(* failed to build, its position, and the calls it made of visualizers and *)
(* cleanup functions.  The calls run side by side; what they share is the  *)
(* working directory.                                                      *)
(***************************************************************************)
NBuilds == 2

Builds == 1..NBuilds

defaultDebugFile == "debug_container.dot"

NilOption == [op |-> "nil", name |-> "", opts |-> <<>>]

Visualizer(v) == [op |-> "Visualizer", name |-> v, opts |-> <<>>]

LogVisualizer == [op |-> "LogVisualizer", name |-> "", opts |-> <<>>]

FileVisualizer(filename) == [op |-> "FileVisualizer", name |-> filename, opts |-> <<>>]

Logger(l) == [op |-> "Logger", name |-> l, opts |-> <<>>]

StderrLogger == Logger("stderr")

OnError(option) == [op |-> "OnError", name |-> "", opts |-> <<option>>]

OnSuccess(option) == [op |-> "OnSuccess", name |-> "", opts |-> <<option>>]

\* DebugCleanup(cleanup), cleanup a function by name
DebugCleanup(c) == [op |-> "DebugCleanup", name |-> c, opts |-> <<>>]

\* DebugCleanup(func() { deleteIfExists(filename) })
DebugCleanupDelete(filename) ==
    [op |-> "DebugCleanupDelete", name |-> filename, opts |-> <<>>]

DebugOptions(options) == [op |-> "DebugOptions", name |-> "", opts |-> options]

Debug == DebugOptions(<<StderrLogger, FileVisualizer(defaultDebugFile)>>)

\* the Debug options applied whatever the outcome
AutoDebugEager ==
    DebugOptions(<<Debug, OnSuccess(DebugCleanupDelete(defaultDebugFile))>>)

AutoDebug ==
    DebugOptions(<<OnError(Debug), OnSuccess(DebugCleanupDelete(defaultDebugFile))>>)

\* an option of a caller of InjectDebug that uses every constructor
CallerDebug ==
    DebugOptions(<<Visualizer("v1"), DebugCleanup("c1"), LogVisualizer,
                   OnError(DebugOptions(<<Visualizer("v2"), DebugCleanup("c2")>>)),
                   OnSuccess(DebugCleanup("c3")), DebugCleanup("c4")>>)

\* an option of a caller of InjectDebug that logs: a logger from the start,
\* and a logger registered by the error hook and by the success hook
LoggingDebug ==
    DebugOptions(<<Logger("early"), LogVisualizer,
                   OnError(DebugOptions(<<Logger("late"), Visualizer("v3")>>)),
                   OnSuccess(Logger("late"))>>)

\* debugOption(func(*debugConfig) error { return e }): an option whose
\* application returns the error e
Failing(e) == [op |-> "Failing", name |-> e, opts |-> <<>>]

\* an option whose application fails after its first member was applied
FailingDebug ==
    DebugOptions(<<DebugCleanup("c5"), Failing("option error"), OnError(Debug)>>)

\* an option whose hooks fail when they are applied
FailingHooks ==
    DebugOptions(<<OnError(Failing("error hook error")),
                   OnSuccess(Failing("success hook error"))>>)

\* the options given to the calls: Inject uses AutoDebug
DebugOpts == {AutoDebug, CallerDebug, LoggingDebug, NilOption, FailingDebug, FailingHooks}

\* loggers[i] is the name of logger i and sinks[i] what it was called with;
\* the logger named logBuf is the closure that appends to *c.logBuf, which
\* is buf when logBuf says the pointer is not nil; emitted is every message
\* logf was called for
newDebugConfig ==
    [loggers |-> <<>>, sinks |-> <<>>, logBuf |-> FALSE, buf |-> <<>>,
     emitted |-> <<>>, visualizers |-> <<>>,
     logVisualizer |-> FALSE, onError |-> NilOption, onSuccess |-> NilOption,
     cleanup |-> <<>>]

\* initLogBuf without the nil check: a new buffer and one more closure
initLogBufAlways(c) ==
    [c EXCEPT !.logBuf = TRUE, !.buf = <<>>,
              !.loggers = Append(@, "logBuf"), !.sinks = Append(@, <<>>)]

initLogBuf(c) ==
    IF c.logBuf THEN c
    ELSE [c EXCEPT !.logBuf = TRUE, !.buf = <<>>,
                   !.loggers = Append(@, "logBuf"), !.sinks = Append(@, <<>>)]

\* logger("Initializing logger"), said to the logger itself
Greeting == [text |-> "Initializing logger", n |-> 0]

\* sendBufferedLogs: the messages the logger is called with
sendBufferedLogs(c) == IF c.logBuf THEN c.buf ELSE <<>>

RECURSIVE logTo(_, _, _)
\* the loop of logf over c.loggers, from logger i on
logTo(c, i, msg) ==
    IF i > Len(c.loggers) THEN c
    ELSE IF c.loggers[i] = "logBuf"
    THEN logTo([c EXCEPT !.buf = Append(@, msg)], i + 1, msg)
    ELSE logTo([c EXCEPT !.sinks[i] = Append(@, msg)], i + 1, msg)

\* logf: the message, numbered by its place among the messages of the call
logf(c, text) ==
    LET msg == [text |-> text, n |-> Len(c.emitted) + 1]
    IN  logTo([c EXCEPT !.emitted = Append(@, msg)], 1, msg)

\* an error is its message, a sequence of pieces; the nil error has none
Nil == <<>>

\* the error of opts.config.apply and the error of container.build
ConfigError == <<"config error">>

BuildError == <<"build error">>

ErrProviderRegistration == <<"failed to register providers">>

\* fmt.Errorf("%w: %v", e1, e2)
Wrap(e1, e2) == e1 \o <<": ">> \o e2

RECURSIVE applyConfigError(_)
RECURSIVE firstError(_, _)

\* DebugOptions: the error of the first option that returns one
firstError(options, i) ==
    IF i > Len(options) THEN Nil
    ELSE IF applyConfigError(options[i]) # Nil THEN applyConfigError(options[i])
    ELSE firstError(options, i + 1)

\* the error applyConfig returns: the constructors of the package return
\* nil, DebugOptions returns what a member returned
applyConfigError(option) ==
    CASE option.op = "Failing" -> <<option.name>>
      [] option.op = "DebugOptions" -> firstError(option.opts, 1)
      [] OTHER -> Nil

RECURSIVE applyConfig(_, _)
RECURSIVE applyConfigsFrom(_, _, _)

\* DebugOptions: the options one after the other, up to the first that
\* returns an error
applyConfigsFrom(options, i, c) ==
    IF i > Len(options) THEN c
    ELSE Let(applyConfig(options[i], c), LAMBDA c2 :
             IF applyConfigError(options[i]) # Nil THEN c2
             ELSE applyConfigsFrom(options, i + 1, c2))

\* what applyConfig does to the debugConfig
applyConfig(option, c) ==
    CASE option.op \in {"nil", "Failing"} -> c
      [] option.op = "Visualizer" ->
           [c EXCEPT !.visualizers = Append(@, [kind |-> "func", name |-> option.name])]
      [] option.op = "FileVisualizer" ->
           [c EXCEPT !.visualizers = Append(@, [kind |-> "file", name |-> option.name])]
      [] option.op = "LogVisualizer" -> [c EXCEPT !.logVisualizer = TRUE]
      [] option.op = "Logger" ->
           [c EXCEPT !.loggers = Append(@, option.name),
                     !.sinks = Append(@, <<Greeting>> \o sendBufferedLogs(c))]
      [] option.op = "DebugCleanup" ->
           [c EXCEPT !.cleanup = Append(@, [kind |-> "func", name |-> option.name])]
      [] option.op = "DebugCleanupDelete" ->
           [c EXCEPT !.cleanup = Append(@, [kind |-> "delete", name |-> option.name])]
      [] option.op = "OnError" -> [initLogBuf(c) EXCEPT !.onError = option.opts[1]]
      [] option.op = "OnSuccess" -> [initLogBuf(c) EXCEPT !.onSuccess = option.opts[1]]
      [] option.op = "DebugOptions" -> applyConfigsFrom(option.opts, 1, c)

\* how buildContainer ends: the configuration is not applied, or it is and
\* the build fails, or the container is built
BuildOutcomes == {"not registered", "not built", "built"}

\* buildContainer, as far as the log goes: a configuration that is applied
\* is followed by the messages of container.call
buildContainer(c, outcome) ==
    IF outcome = "not registered"
    THEN logf(logf(c, "Registering providers"), "Failed registering providers")
    ELSE logf(logf(c, "Registering providers"), "Resolving dependencies")

\* the error buildContainer returns
buildContainerError(outcome) ==
    CASE outcome = "not registered" -> Wrap(ErrProviderRegistration, ConfigError)
      [] outcome = "not built" -> BuildError
      [] outcome = "built" -> Nil

\* handleInjectionError logs the error before the hook is applied
logError(c, failed) == IF failed THEN logf(c, "Error") ELSE c

\* an error handler that returns the error of the hook alone
handleInjectionErrorHookOnly(c, e) ==
    IF applyConfigError(c.onError) # Nil
    THEN <<"error handling failed: ">> \o applyConfigError(c.onError)
    ELSE e

\* the error handleInjectionError returns for the error e
handleInjectionError(c, e) ==
    IF applyConfigError(c.onError) # Nil
    THEN <<"error handling failed: ">> \o applyConfigError(c.onError)
             \o <<" (original error: ">> \o e \o <<")">>
    ELSE e

\* the error handleInjectionSuccess returns
handleInjectionSuccess(c) ==
    IF applyConfigError(c.onSuccess) # Nil
    THEN <<"success handling failed: ">> \o applyConfigError(c.onSuccess)
    ELSE Nil

\* no file; a file holds the graph of a call
Absent == {}

\* saveGraphToFile logs where the graph went, or that it could not be saved
logVisualizer(v, c) == IF v.kind = "file" THEN logf(c, "Saved graph of container") ELSE c

\* a visualizer called with the graph of call b: a file visualizer writes it
callVisualizer(v, b, fs) ==
    IF v.kind = "file" THEN [fs EXCEPT ![v.name] = {b}] ELSE fs

\* a cleanup function called; deleteIfExists removes the file
callCleanup(c, fs) ==
    IF c.kind = "delete" THEN [fs EXCEPT ![c.name] = Absent] ELSE fs

InitInject ==
    /\ builds \in [Builds -> { [pc |-> "start", opt |-> o, cfg |-> newDebugConfig,
                                failed |-> FALSE, outcome |-> "", err |-> Nil,
                                ret |-> Nil, i |-> 0, j |-> 1, trace |-> <<>>]
                               : o \in DebugOpts }]
    /\ files = [f \in {defaultDebugFile} |-> Absent]
    /\ checkedType = NoType
    /\ moduleKeyContext = EmptyMap /\ moduleKeys = <<>>
    /\ graph = NoNodes
    /\ checkResult = Pending
    /\ suite = "Resolution"
    /\ applied = <<>> /\ pc = "config" /\ err = NoErr /\ ctr = newContainer
    /\ invokers = <<>> /\ descs = <<>> /\ cache = EmptyMap
    /\ callerStack = <<>> /\ callerMap = {} /\ frames = <<>>
    /\ requested = <<>> /\ outputs = <<>> /\ callLog = <<>> /\ invIdx = 1

\* performInjection: the option is applied to a new debugConfig; if that
\* returns an error it is returned, else the container is built from the
\* caller's configuration, which fails or not
performInjection(b) ==
    /\ builds[b].pc = "start"
    /\ IF applyConfigError(builds[b].opt) # Nil
       THEN builds' = [builds EXCEPT
                         ![b].cfg = applyConfig(builds[b].opt, newDebugConfig),
                         ![b].failed = TRUE,
                         ![b].outcome = "not configured",
                         ![b].err = applyConfigError(builds[b].opt),
                         ![b].pc = "performed"]
       ELSE \E outcome \in BuildOutcomes :
              builds' = [builds EXCEPT
                           ![b].cfg = buildContainer(applyConfig(builds[b].opt,
                                                                 newDebugConfig),
                                                     outcome),
                           ![b].failed = (outcome # "built"),
                           ![b].outcome = outcome,
                           ![b].err = buildContainerError(outcome),
                           ![b].pc = "performed"]
    /\ UNCHANGED <<containerVars, checkedType, checkResult, files>>

\* the error hook applied whatever the outcome
handleInjectionAlwaysError(b) ==
    /\ builds[b].pc = "performed"
    /\ LET c == builds[b].cfg
           hook == c.onError
       IN  builds' = [builds EXCEPT
                        ![b].cfg = applyConfig(hook, logError(c, builds[b].failed)),
                        ![b].ret = IF builds[b].failed
                                   THEN handleInjectionError(c, builds[b].err)
                                   ELSE handleInjectionSuccess(c),
                        ![b].trace = Append(@, [ev |-> "hook", what |-> hook]),
                        ![b].pc = "deferred"]
    /\ UNCHANGED <<containerVars, checkedType, checkResult, files>>

\* handleInjectionError or handleInjectionSuccess: the hook is applied
handleInjectionResult(b) ==
    /\ builds[b].pc = "performed"
    /\ LET c == builds[b].cfg
           hook == IF builds[b].failed THEN c.onError ELSE c.onSuccess
       IN  builds' = [builds EXCEPT
                        ![b].cfg = applyConfig(hook, logError(c, builds[b].failed)),
                        ![b].ret = IF builds[b].failed
                                   THEN handleInjectionError(c, builds[b].err)
                                   ELSE handleInjectionSuccess(c),
                        ![b].trace = Append(@, [ev |-> "hook", what |-> hook]),
                        ![b].pc = "deferred"]
    /\ UNCHANGED <<containerVars, checkedType, checkResult, files>>

\* the deferred function, generateGraph: the graph goes to the log if the
\* log visualizer is enabled
logGraph(b) ==
    /\ builds[b].pc = "deferred"
    /\ builds[b].i = 0
    /\ builds' = [builds EXCEPT
                    ![b].cfg = IF @.logVisualizer THEN logf(@, "DOT Graph") ELSE @,
                    ![b].i = 1]
    /\ UNCHANGED <<containerVars, checkedType, checkResult, files>>

\* the deferred function, generateGraph: the next visualizer
generateGraph(b) ==
    /\ builds[b].pc = "deferred"
    /\ builds[b].i >= 1
    /\ builds[b].i <= Len(builds[b].cfg.visualizers)
    /\ LET v == builds[b].cfg.visualizers[builds[b].i]
       IN  /\ files' = callVisualizer(v, b, files)
           /\ builds' = [builds EXCEPT
                           ![b].cfg = logVisualizer(v, @),
                           ![b].trace = Append(@, [ev |-> "visualizer", what |-> v]),
                           ![b].i = @ + 1]
    /\ UNCHANGED <<containerVars, checkedType, checkResult>>

\* the deferred function, runCleanup: the next cleanup function
runCleanup(b) ==
    /\ builds[b].pc = "deferred"
    /\ builds[b].i > Len(builds[b].cfg.visualizers)
    /\ builds[b].j <= Len(builds[b].cfg.cleanup)
    /\ LET c == builds[b].cfg.cleanup[builds[b].j]
       IN  /\ files' = callCleanup(c, files)
           /\ builds' = [builds EXCEPT
                           ![b].trace = Append(@, [ev |-> "cleanup", what |-> c]),
                           ![b].j = @ + 1]
    /\ UNCHANGED <<containerVars, checkedType, checkResult>>

\* runInjection returns without running the deferred function to its end
returnBeforeRelease(b) ==
    /\ builds[b].pc = "deferred"
    /\ builds' = [builds EXCEPT ![b].pc = "returned"]
    /\ UNCHANGED <<containerVars, checkedType, checkResult, files>>

\* runInjection returns, the deferred function done
runInjectionReturn(b) ==
    /\ builds[b].pc = "deferred"
    /\ builds[b].i > Len(builds[b].cfg.visualizers)
    /\ builds[b].j > Len(builds[b].cfg.cleanup)
    /\ builds' = [builds EXCEPT ![b].pc = "returned"]
    /\ UNCHANGED <<containerVars, checkedType, checkResult, files>>

NextInject ==
    \/ \E b \in Builds : performInjection(b)
    \/ \E b \in Builds : handleInjectionResult(b)
    \/ \E b \in Builds : logGraph(b)
    \/ \E b \in Builds : generateGraph(b)
    \/ \E b \in Builds : runCleanup(b)
    \/ \E b \in Builds : runInjectionReturn(b)

SpecInject == InitInject /\ [][NextInject]_vars

(***************************************************************************)
(* Properties.                                                             *)
(***************************************************************************)
\* the descriptors of the registered invokers
InvokerDescs == { invokers[i].fn : i \in 1..Len(invokers) }

\* the descriptors that are providers (not invokers, not the build's own)
Providers ==
    { d \in 1..Len(descs) :
        /\ descs[d].fn # "build"
        /\ ~descs[d].optional
        /\ d \notin InvokerDescs }

\* the number of times descriptor d was called
Calls(d) == Cardinality({ i \in 1..Len(callLog) : callLog[i].d = d })

\* the number of times descriptor d was called for scope key
CallsFor(d, key) ==
    Cardinality({ i \in 1..Len(callLog) : callLog[i].d = d /\ callLog[i].key = key })

\* the descriptor registered for function fn, 0 if there is none
DescOf(fn) ==
    IF \E d \in 1..Len(descs) : descs[d].fn = fn
    THEN CHOOSE d \in 1..Len(descs) : descs[d].fn = fn
    ELSE 0

\* C1 (at-most-once): in every state of every build, a provider registered
\* in global scope that takes no module key has been invoked at most once,
\* whatever outputs, providers, groups and invokers consume its outputs and
\* in whatever order.
C1_AtMostOnce ==
    \A d \in Providers :
        (descs[d].key = NoKey /\ ~hasModuleKeyParam(descs[d].in)) => Calls(d) <= 1

\* a finished build in which IntProvider5 was called once and its output
\* went to the requested output and to both invokers
C1_Witness ==
    /\ pc = "done"
    /\ suite = "Invoke"
    /\ requested = <<TInt>>
    /\ DescOf("IntProvider5") # 0
    /\ Calls(DescOf("IntProvider5")) = 1
    /\ outputs = <<ElemValue("IntProvider5", 1, 0, <<>>)>>
    /\ Cardinality(InvokerDescs) = 2
    /\ \A d \in InvokerDescs : Calls(d) = 1

\* the call frame on top re-enters a Location that is still being resolved
Reentry ==
    /\ frames # <<>>
    /\ Top.kind = "call"
    /\ ~Top.entered
    /\ Top.d \in callerMap

\* the calls in progress that lie on the cycle the frame on top closes
OnCycle ==
    { i \in 1..Len(frames) :
        /\ frames[i].kind = "call"
        /\ frames[i].entered
        /\ \E j \in 1..i : frames[j].kind = "call" /\ frames[j].entered
                             /\ frames[j].d = Top.d }

\* C2 (cycle detection): when the chain of calls leads back to a provider
\* still being resolved, the step taken is the cyclic-dependency error; no
\* provider on the cycle has been invoked; after the error nothing is
\* invoked any more and the build does not succeed.
C2_CycleDetection ==
    /\ [][(Reentry /\ err.kind = "none")
            => (err'.kind = ErrCyclicDependency /\ callLog' = callLog)]_vars
    /\ [](Reentry => \A i \in OnCycle : CallsFor(frames[i].d, frames[i].key) = 0)
    /\ [][err.kind = ErrCyclicDependency
            => (err' = err /\ callLog' = callLog /\ pc' # "done")]_vars
    /\ [](err.kind = ErrCyclicDependency => pc \in {"build", "invokers", "failed"})

\* int needs float64 and float64 needs int: the build for int has failed
\* with the cyclic-dependency error and no provider was invoked
C2_Witness ==
    /\ pc = "failed"
    /\ err.kind = ErrCyclicDependency
    /\ applied = <<Provide("IntToFloat"), Provide("FloatToIntStr")>>
    /\ requested = <<TInt>>
    /\ callLog = <<>>

\* the Config values of kind op applied so far
AppliedOps(op) == { i \in 1..Len(applied) : applied[i].op = op }

\* the implementation types of interface iface that a provider registered
\* so far produces
RegisteredImpls(iface) ==
    { t \in { descs[d].out[i] : d \in Providers, i \in 1..1 } :
        t.k = "named" /\ ImplementsNames(t.n, iface) }

\* the providers registered so far that take interface iface as an input
Consumers(iface) ==
    { d \in Providers : \E i \in 1..Len(descs[d].in) : descs[d].in[i] = Named(iface) }

\* C3 (ambiguous interface): once a build is over, if two or more providers
\* of distinct implementations of Duck are registered, no binding was made
\* and a consumer of Duck was registered and asked for, the build has failed
\* with the multiple-implicit-bindings error that lists every one of them.
C3_AmbiguousInterface ==
    ( /\ pc \in {"done", "failed"}
      /\ Cardinality(RegisteredImpls("Duck")) >= 2
      /\ DOMAIN ctr.interfaceBindings = {}
      /\ Consumers("Duck") # {}
      /\ (pc = "done" => requested = <<SliceOf(Named("DuckWrapper"))>>) )
    => /\ pc = "failed"
       /\ err = Err(ErrMultipleImplicitInterfaceBindings,
                    { t.n : t \in RegisteredImpls("Duck") })

\* the value the Duck input of the consumer took in the call of descriptor
\* d for scope key
DuckGiven(d, key) == cache[<<d, key>>][1].args[1]

\* the provider function of the implementation type named n
ProviderOf(n) == "Provide" \o n

\* A configuration is a list of Config values that begins with the ones
\* applied so far; when one of them fails, the rest of the list is never
\* applied.  Listed(item): item is in the list, applied or cut off.
Listed(item) ==
    \/ Applied(item)
    \/ /\ pc = "failed"
       /\ requested = <<>>
       /\ Len(applied) < MaxConfig
       /\ item \in Items(suite)

\* the global bindings of interface iface to an implementation whose
\* provider is in the list too
ListedGlobalBindings(iface) ==
    { b \in Items(suite) :
        /\ b.op = "BindInterface"
        /\ b.a = iface
        /\ Listed(b)
        /\ Provide(ProviderOf(b.b)) \in Items(suite)
        /\ Listed(Provide(ProviderOf(b.b))) }

\* the providers of implementations of iface in the list
ListedImpls(iface) ==
    { it \in Items(suite) :
        /\ it.op = "Provide"
        /\ Listed(it)
        /\ Len(Funcs[it.a].out) = 1
        /\ Funcs[it.a].out[1].k = "named"
        /\ ImplementsNames(Funcs[it.a].out[1].n, iface) }

\* C4 (explicit binding wins): once the build of a configuration is over,
\* if the configuration lists providers of two or more implementations of
\* Duck and a global binding of Duck to one of them, the build has succeeded
\* and every global-scope consumer of Duck registered was given the value of
\* the bound implementation.
C4_ExplicitBindingWins ==
    \A d \in Consumers("Duck") : \A b \in ListedGlobalBindings("Duck") :
        ( /\ pc \in {"done", "failed"}
          /\ descs[d].key = NoKey
          /\ Cardinality(ListedImpls("Duck")) >= 2 )
        => /\ pc = "done"
           /\ Cached(d, NoKey)
           /\ DuckGiven(d, NoKey).by = ProviderOf(b.b)

\* Configs(list).apply on a fresh container, as a function of the list:
\* the container, the error, the functions of the descriptors extracted,
\* and the Config value that failed
ApplyItem(st, item) ==
    CASE st.err.kind # "none" -> st
      [] item.op \in {"ProvideInModule", "InvokeInModule"} /\ item.mod = "" ->
           [c |-> st.c, err |-> Err(ErrEmptyModuleName, {}), fns |-> st.fns,
            at |-> item]
      [] item.op \in {"Provide", "ProvideInModule"} ->
           Let(addNode(st.c, Len(st.fns) + 1, Funcs[item.a].in, Funcs[item.a].out,
                       item.mod),
               LAMBDA r : [c |-> r.c, err |-> r.err, fns |-> Append(st.fns, item.a),
                           at |-> item])
      [] item.op \in {"Invoke", "InvokeInModule"} ->
           [c |-> st.c,
            err |-> IF Len(Funcs[item.a].out) > 0
                    THEN Err(ErrInvalidInvoker, {item.a}) ELSE NoErr,
            fns |-> Append(st.fns, item.a), at |-> item]
      [] item.op \in {"BindInterface", "BindInterfaceInModule"} ->
           [c |-> bindInterface(st.c, item.a, item.b, item.mod), err |-> NoErr,
            fns |-> st.fns, at |-> item]
      [] item.op = "Supply" ->
           Let(supplyFrom(st.c, Supplies[item.a], 1),
               LAMBDA r : [c |-> r.c, err |-> r.err, fns |-> st.fns, at |-> item])
      [] item.op = "Error" ->
           [c |-> st.c, err |-> Err(item.a, {}), fns |-> st.fns, at |-> item]

RECURSIVE ApplyFrom(_, _, _)
ApplyFrom(st, list, i) ==
    IF i > Len(list) THEN st
    ELSE Let(ApplyItem(st, list[i]), LAMBDA st2 : ApplyFrom(st2, list, i + 1))

ApplyConfigs(list) ==
    ApplyFrom([c |-> newContainer, err |-> NoErr, fns |-> <<>>, at |-> Provide("")],
              list, 1)

\* what a consumer in scope key finds for interface iface after list was
\* applied: the provider function of the resolver, or the error
Finds(list, iface, key) ==
    Let(ApplyConfigs(list), LAMBDA st :
        IF st.err.kind # "none"
        THEN [ok |-> FALSE, what |-> st.err.kind, mod |-> st.at.mod]
        ELSE Let(getResolver(st.c, Named(iface), key), LAMBDA r :
                 IF r.err.kind # "none"
                 THEN [ok |-> FALSE, what |-> r.err.kind, mod |-> key]
                 ELSE IF r.res.kind = "nil"
                 THEN [ok |-> TRUE, what |-> "nil", mod |-> key]
                 ELSE [ok |-> TRUE, what |-> st.fns[r.res.d], mod |-> key]))

\* list without its i-th member
Without(list, i) == SubSeq(list, 1, i - 1) \o SubSeq(list, i + 1, Len(list))

\* the scopes in which a consumer of iface is registered by the list
ConsumerScopes(iface) ==
    { applied[i].mod : i \in
        { j \in 1..Len(applied) :
            /\ applied[j].op \in {"Provide", "ProvideInModule"}
            /\ \E n \in 1..Len(Funcs[applied[j].a].in) :
                   Funcs[applied[j].a].in[n] = Named(iface) } }

\* the implementation the bindings give a consumer of iface in scope key:
\* the one bound for (iface, key), else the one bound globally, else ""
BoundImpl(iface, key) ==
    LET b == ctr.interfaceBindings
        scoped == bindingKeyFromTypeName(iface, key)
        global == bindingKeyFromTypeName(iface, NoKey)
    IN  IF scoped \in DOMAIN b THEN b[scoped].implTypeName
        ELSE IF global \in DOMAIN b THEN b[global].implTypeName
        ELSE ""

\* every consumer of Duck that was called was given the implementation bound
\* for its own scope if there is one, else the globally bound one
ScopedPrecedence ==
    \A d \in Consumers("Duck") : \A key \in {NoKey, "a", "b"} :
        (Cached(d, key) /\ BoundImpl("Duck", key) # "")
            => DuckGiven(d, key).by = ProviderOf(BoundImpl("Duck", key))

\* taking a binding made for module m out of the configuration changes
\* nothing in what a consumer of any other scope finds for Duck (unless one
\* of the two configurations fails in a registration of module m itself)
ScopedNonInterference ==
    pc \in {"done", "failed"} =>
        \A i \in AppliedOps("BindInterfaceInModule") :
            \A key \in ConsumerScopes("Duck") \ {applied[i].mod} :
                LET with == Finds(applied, "Duck", key)
                    without == Finds(Without(applied, i), "Duck", key)
                IN  (with.mod # applied[i].mod /\ without.mod # applied[i].mod)
                        => (with.ok = without.ok /\ with.what = without.what)

\* C5 (scoped binding precedence): a consumer running in module m is given
\* the implementation bound for (interface, m) if there is such a binding,
\* else the globally bound one; and a binding made for module m never
\* changes what the global scope or another module resolves.
C5_ScopedBindingPrecedence == ScopedPrecedence /\ ScopedNonInterference

\* the output types of provider d that get a direct resolver
DirectOuts(d) ==
    { descs[d].out[i] : i \in
        { j \in 1..Len(descs[d].out) :
            \/ hasModuleKeyParam(descs[d].in)
            \/ LET t == descs[d].out[j]
                   elem == IF isManyPerContainerSliceType(t) THEN Elem(t) ELSE t
               IN  ~isManyPerContainerType(elem) /\ ~isOnePerModuleType(elem) } }

\* C6 (duplicate rejection): whenever two providers registered in the same
\* scope both have a direct output of one type, the second one is the
\* registration that failed configuration application, and it failed with
\* the duplicate-definition error for one of its output types.
C6_DuplicateRejection ==
    \A d1 \in Providers : \A d2 \in Providers :
        ( /\ d1 < d2
          /\ descs[d1].key = descs[d2].key
          /\ DirectOuts(d1) \cap DirectOuts(d2) # {} )
        => /\ pc = "failed"
           /\ requested = <<>>
           /\ d2 = Len(descs)
           /\ err.kind = ErrDuplicateDefinition
           /\ \E t \in DirectOuts(d2) : err.info = {fullyQualifiedTypeName(t)}

\* func() int and func(float32) int, both registered in global scope: the
\* second registration has failed with the duplicate-definition error
C6_Witness ==
    /\ pc = "failed"
    /\ applied = <<Provide("IntProvider5"), Provide("Float32ToInt")>>
    /\ err = Err(ErrDuplicateDefinition, {"int"})
    /\ "int" \in DOMAIN ctr.resolvers
    /\ ctr.resolvers["int"].d = 1

\* C7 (distinct scopes): a registration fails with the duplicate-definition
\* error only if an earlier provider of the same scope has a direct output
\* of the same type (two direct providers of one type in two different
\* scopes both register), and every registered provider keeps the resolver
\* of each of its direct output types.
C7_DistinctScopes ==
    /\ \A d2 \in Providers :
         ( /\ pc = "failed"
           /\ requested = <<>>
           /\ d2 = Len(descs)
           /\ err.kind = ErrDuplicateDefinition )
         => \E d1 \in Providers :
              /\ d1 < d2
              /\ descs[d1].key = descs[d2].key
              /\ \E t \in DirectOuts(d1) \cap DirectOuts(d2) :
                     err.info = {fullyQualifiedTypeName(t)}
    /\ \A d \in Providers :
         (pc # "failed" \/ d < Len(descs)) =>
             \A t \in DirectOuts(d) :
                 /\ resolverByType(ctr, t).found
                 /\ resolverByType(ctr, t).r.d = d

\* the elements output i of provider d contributes to a group, from the
\* values of its one call
Contribution(d, i) ==
    LET v == cache[<<d, descs[d].key>>][i]
    IN  IF descs[d].out[i].k = "slice" THEN v.elems ELSE <<v>>

\* the contributions to the group of element type elem of the outputs
\* i, i+1, ... of provider d and of all outputs of the providers after d,
\* in registration order
RECURSIVE ContributionsFrom(_, _, _)
ContributionsFrom(elem, d, i) ==
    IF d > Len(descs) THEN <<>>
    ELSE IF d \notin Providers \/ i > Len(descs[d].out) \/ hasModuleKeyParam(descs[d].in)
    THEN ContributionsFrom(elem, d + 1, 1)
    ELSE IF descs[d].out[i] \in {Named(elem), SliceOf(Named(elem))}
    THEN Contribution(d, i) \o ContributionsFrom(elem, d, i + 1)
    ELSE ContributionsFrom(elem, d, i + 1)

\* C8 (group ordering): once the collection form of a group type is
\* resolved, its value is the sequence of the contributions of all
\* contributing providers in registration order, a contributed slice
\* spliced in place in its own order; a requested output of the collection
\* type is that sequence.
C8_GroupOrdering ==
    \A elem \in DOMAIN ctr.groups :
        /\ ctr.groups[elem].resolved =>
              ctr.groups[elem].values = SliceValue(ContributionsFrom(elem, 1, 1))
        /\ pc = "done" =>
              \A i \in 1..Len(requested) :
                  requested[i] = SliceOf(Named(elem)) =>
                      outputs[i] = SliceValue(ContributionsFrom(elem, 1, 1))

\* ModuleB.Provide (a slice of two Commands) registered before
\* ModuleA.Provide (one Command): []Command is b1, b2, a
C8_Witness ==
    /\ pc = "done"
    /\ suite = "Scenario"
    /\ requested = <<SliceOf(Named("Command")), SliceOf(Named("Command"))>>
    /\ DescOf("ModuleBProvide") # 0
    /\ DescOf("ModuleBProvide") < DescOf("ModuleAProvide")
    /\ Len(outputs[1].elems) = 3
    /\ outputs[1].elems[1].by = "ModuleBProvide" /\ outputs[1].elems[1].k = 1
    /\ outputs[1].elems[2].by = "ModuleBProvide" /\ outputs[1].elems[2].k = 2
    /\ outputs[1].elems[3].by = "ModuleAProvide"
    /\ outputs[2] = outputs[1]

\* the providers that contribute to the one-per-module type elem
OnePerModuleProviders(elem) ==
    { d \in Providers :
        /\ ~hasModuleKeyParam(descs[d].in)
        /\ \E i \in 1..Len(descs[d].out) : descs[d].out[i] = Named(elem)
        /\ (pc = "failed" /\ requested = <<>>) => d < Len(descs) }

\* the value provider d contributes for elem
OnePerModuleValue(elem, d) ==
    cache[<<d, descs[d].key>>]
         [CHOOSE i \in 1..Len(descs[d].out) : descs[d].out[i] = Named(elem)]

\* the map of elem, from the descriptors and the values of their calls
ExpectedMap(elem) ==
    MapValue({ <<descs[d].key, OnePerModuleValue(elem, d)>> :
                 d \in OnePerModuleProviders(elem) })

\* C9 (scoped isolation): a provider registered in a module that has not
\* contributed to a one-per-module type yet registers its contribution
\* (its registration does not fail on it), and once the map form is
\* resolved it has exactly one entry per contributing module, keyed by the
\* module's name and holding the value of that module's provider; a
\* requested output of the map type is that map.
C9_ScopedIsolation ==
    /\ \A d \in Providers :
         \A i \in 1..Len(descs[d].out) :
            ( /\ pc = "failed"
              /\ requested = <<>>
              /\ d = Len(descs)
              /\ descs[d].key # NoKey
              /\ ~hasModuleKeyParam(descs[d].in)
              /\ isOnePerModuleType(descs[d].out[i])
              /\ \A d1 \in OnePerModuleProviders(descs[d].out[i].n) :
                     descs[d1].key # descs[d].key )
            => ~ ( /\ err.kind \in {ErrModuleScopeRequired, ErrDuplicateModuleScope,
                                    ErrDuplicateDefinition}
                   /\ descs[d].out[i].n \in err.info )
    /\ \A elem \in DOMAIN ctr.ones :
         /\ ctr.ones[elem].resolved =>
              /\ ctr.ones[elem].values = ExpectedMap(elem)
              /\ \A d1 \in OnePerModuleProviders(elem) :
                   \A d2 \in OnePerModuleProviders(elem) :
                       descs[d1].key = descs[d2].key => d1 = d2
         /\ pc = "done" =>
              \A i \in 1..Len(requested) :
                  requested[i] = MapOf(Named(elem)) => outputs[i] = ExpectedMap(elem)

\* ModuleA.Provide in module a and ModuleB.Provide in module b both
\* contribute a Handler: map[string]Handler has the entries a and b
C9_Witness ==
    /\ pc = "done"
    /\ suite = "Scenario"
    /\ Len(requested) = 4
    /\ requested[1] = MapOf(Named("Handler"))
    /\ { e[1] : e \in outputs[1].entries } = {"a", "b"}
    /\ Cardinality(outputs[1].entries) = 2
    /\ \E e \in outputs[1].entries : e[1] = "a" /\ e[2].by = "ModuleAProvide"
    /\ \E e \in outputs[1].entries : e[1] = "b" /\ e[2].by = "ModuleBProvide"

\* the value the resolver r provides in scope key, from the values of the
\* provider calls made
ProvidedValue(r, key) ==
    CASE r.kind = "simple" -> cache[<<r.d, r.key>>][r.idx]
      [] r.kind = "moduleDep" -> cache[<<r.d, key>>][r.idx]
      [] r.kind = "supply" -> r.value
      [] r.kind = "sliceGroup" -> ctr.groups[r.elem].values
      [] r.kind = "mapOfOnePerModule" -> ctr.ones[r.elem].values

\* C10 (invoker optionality): an invoker is called with the zero value for
\* every input whose type has no provider and with the provided value for
\* every other input; no input of an invoker makes the build fail for a
\* missing dependency; a build that is done has called every registered
\* invoker.
C10_InvokerOptionality ==
    /\ \A n \in 1..Len(callLog) :
         callLog[n].d \in InvokerDescs =>
             \A i \in 1..Len(descs[callLog[n].d].in) :
                 LET r == getResolver(ctr, descs[callLog[n].d].in[i], callLog[n].key).res
                 IN  IF r.kind = "nil"
                     THEN callLog[n].in[i] = ZeroValue
                     ELSE /\ callLog[n].in[i] = ProvidedValue(r, callLog[n].key)
                          /\ callLog[n].in[i] # ZeroValue
    /\ ( /\ frames # <<>>
         /\ Top.kind = "call"
         /\ Top.d \in InvokerDescs
         /\ Top.i <= Len(descs[Top.d].in) )
       => err # Err(ErrMissingDependency,
                    {fullyQualifiedTypeName(descs[Top.d].in[Top.i])})
    /\ pc = "done" => \A d \in InvokerDescs : Calls(d) >= 1

\* IntStringPointerInvoker with int provided and *string not: the build is
\* done and the invoker was called with 5's provider value and a nil *string
C10_Witness ==
    /\ pc = "done"
    /\ applied = <<Supply("InvokeSuite"), Provide("IntProvider5"),
                   Invoke("IntStringPointerInvoker")>>
    /\ ~resolverByType(ctr, TStringPtr).found
    /\ \E n \in 1..Len(callLog) :
         /\ descs[callLog[n].d].fn = "IntStringPointerInvoker"
         /\ callLog[n].in = <<SuppliedValue(Named("*InvokeSuite")),
                              ElemValue("IntProvider5", 1, 0, <<>>), ZeroValue>>

\* the Invoke and InvokeInModule members of the configuration, in list order
InvokeItems ==
    SelectSeq(applied, LAMBDA it : it.op \in {"Invoke", "InvokeInModule"})

\* the calls of invokers made so far, in order
InvokerCalls == SelectSeq(callLog, LAMBDA c : c.d \in InvokerDescs)

\* the value the build has for requested output k
RequestedValue(k) ==
    ProvidedValue(getResolver(ctr, requested[k], NoKey).res, NoKey)

\* C11 (build ordering): once the build has started nothing is applied or
\* registered any more; the outputs are resolved one after the other in
\* argument order and assigned position by position; an invoker is called
\* only after the outputs were assigned; the invokers are called in the
\* order of the Invoke/InvokeInModule members of the configuration, each in
\* its own scope, and a build that is done has called each exactly once.
C11_BuildOrdering ==
    /\ [][pc # "config"
            => (applied' = applied /\ invokers' = invokers /\ pc' # "config")]_vars
    /\ [][(pc = "build" /\ pc' = "build")
            => (/\ descs[frames[1].d].fn = "build"
                /\ frames'[1].d = frames[1].d
                /\ frames'[1].i \in {frames[1].i, frames[1].i + 1}
                /\ SubSeq(frames'[1].inVals, 1, Len(frames[1].inVals))
                     = frames[1].inVals)]_vars
    /\ [](pc = "build" =>
            /\ outputs = <<>>
            /\ Len(frames[1].inVals) = frames[1].i - 1
            /\ \A k \in 1..Len(frames[1].inVals) :
                   frames[1].inVals[k] = RequestedValue(k))
    /\ [](pc \in {"invokers", "done"} =>
            /\ Len(outputs) = Len(requested)
            /\ \A k \in 1..Len(requested) : outputs[k] = RequestedValue(k))
    /\ [](InvokerCalls # <<>> =>
            /\ pc \in {"invokers", "done", "failed"}
            /\ Len(outputs) = Len(requested)
            /\ \E n \in 1..Len(callLog) :
                   /\ descs[callLog[n].d].fn = "build"
                   /\ \A m \in 1..n : callLog[m].d \notin InvokerDescs)
    /\ [](/\ Len(InvokerCalls) <= Len(InvokeItems)
          /\ \A k \in 1..Len(InvokerCalls) :
                 /\ descs[InvokerCalls[k].d].fn = InvokeItems[k].a
                 /\ InvokerCalls[k].key = InvokeItems[k].mod)
    /\ [](pc = "done" => Len(InvokerCalls) = Len(InvokeItems))

\* a finished build that asked for int: the int was assigned, then the
\* module invoker and the global invoker ran, in the order they were listed
C11_Witness ==
    /\ pc = "done"
    /\ suite = "Invoke"
    /\ requested = <<TInt>>
    /\ outputs = <<ElemValue("IntProvider5", 1, 0, <<>>)>>
    /\ InvokeItems = <<InvokeInModule("foo", "IntStringPointerInvoker"),
                       Invoke("IntStringPointerInvoker")>>
    /\ Len(InvokerCalls) = 2
    /\ InvokerCalls[1].key = "foo"
    /\ InvokerCalls[2].key = NoKey

\* C12 (no partial results): whenever the build has failed, in the
\* configuration, in the resolution of an output or in an invoker, no
\* output pointer has been assigned.
C12_NoPartialResults == pc = "failed" => outputs = <<>>

\* the call on top is resolving a required input that has no resolver
NeedsMissingInput ==
    /\ pc \in {"build", "invokers"}
    /\ frames # <<>>
    /\ Top.kind = "call"
    /\ Top.entered
    /\ Top.i <= Len(descs[Top.d].in)
    /\ ~descs[Top.d].optional
    /\ descs[Top.d].in[Top.i] \notin {moduleKeyType, ownModuleKeyType}
    /\ getResolver(ctr, descs[Top.d].in[Top.i], Top.key).err.kind = "none"
    /\ getResolver(ctr, descs[Top.d].in[Top.i], Top.key).res.kind = "nil"

\* C13 (missing dependency is lazy): the missing-dependency error arises
\* only in the step in which a provider that is being called resolves a
\* required input that has no resolver, and it names that input; it never
\* arises while the configuration is applied, so a provider with such an
\* input (an interface without implementation included) registers, and a
\* build that never calls the provider does not fail for it.
C13_LazyMissingDependency ==
    /\ [][(err.kind # ErrMissingDependency /\ err'.kind = ErrMissingDependency)
            => (/\ NeedsMissingInput
                /\ err'.info = {fullyQualifiedTypeName(descs[Top.d].in[Top.i])})]_vars
    /\ [][(NeedsMissingInput /\ err.kind = "none")
            => err'.kind = ErrMissingDependency]_vars
    /\ [](err.kind = ErrMissingDependency => pc \in {"build", "invokers", "failed"})

\* FloatToStr needs a float64 nobody provides; it is registered and the
\* build for int, which never calls it, is done
C13_Witness ==
    /\ pc = "done"
    /\ applied = <<Provide("IntProvider5"), Provide("FloatToStr")>>
    /\ requested = <<TInt>>
    /\ ~resolverByType(ctr, TFloat64).found
    /\ DescOf("FloatToStr") # 0
    /\ Calls(DescOf("FloatToStr")) = 0

\* the providers that take the module key: registered once, called per module
ModuleScopedProviders == { d \in Providers : hasModuleKeyParam(descs[d].in) }

\* call n received input i from a call of module-scoped provider r.d that was
\* made for the scope of call n, with that scope's key as its module key
FromOwnModuleCall(n, i, r) ==
    \E m \in 1..(n - 1) :
        /\ callLog[m].d = r.d
        /\ callLog[m].key = callLog[n].key
        /\ \A j \in 1..Len(descs[r.d].in) :
               descs[r.d].in[j] = moduleKeyType
                   => callLog[m].in[j].name = callLog[n].key
        /\ callLog[n].in[i] = FnValues(descs[r.d].fn, callLog[m].in)[r.idx]

\* C15 (module-scoped providers): a provider that takes the module key is
\* called in the scope of a module only, with that module's key, and at most
\* once for each module; whoever takes one of its outputs as input, in the
\* scope of module k, receives the value of the call made for k.
C15_PerModuleResolution ==
    /\ \A n \in 1..Len(callLog) :
         callLog[n].d \in ModuleScopedProviders =>
             /\ callLog[n].key # NoKey
             /\ \A j \in 1..Len(descs[callLog[n].d].in) :
                    descs[callLog[n].d].in[j] = moduleKeyType
                        => /\ callLog[n].in[j].by = "ModuleKey"
                           /\ callLog[n].in[j].name = callLog[n].key
    /\ \A d \in ModuleScopedProviders :
         \A n, m \in 1..Len(callLog) :
             (callLog[n].d = d /\ callLog[m].d = d /\ callLog[n].key = callLog[m].key)
                 => n = m
    /\ \A n \in 1..Len(callLog) :
         \A i \in 1..Len(descs[callLog[n].d].in) :
             LET vr == getResolver(ctr, descs[callLog[n].d].in[i], callLog[n].key)
             IN  (vr.err.kind = "none" /\ vr.res.kind = "moduleDep")
                     => FromOwnModuleCall(n, i, vr.res)

\* the scenario of the tests, built: ProvideKVStoreKey was called once for
\* module a and once for module b, and each keeper holds its own module's key
C15_Witness ==
    /\ pc = "done"
    /\ suite = "Scenario"
    /\ Len(requested) = 4
    /\ DescOf("ProvideKVStoreKey") # 0
    /\ CallsFor(DescOf("ProvideKVStoreKey"), "a") = 1
    /\ CallsFor(DescOf("ProvideKVStoreKey"), "b") = 1
    /\ outputs[3].by = "ModuleAProvide"
    /\ outputs[3].args[2] = OutValue("ProvideKVStoreKey", 1, <<ModuleKeyValue("a")>>)
    /\ outputs[4].by = "ModuleBProvide"
    /\ outputs[4].args[2] = OutValue("ProvideKVStoreKey", 1, <<ModuleKeyValue("b")>>)
    /\ outputs[4].args[3] = OutValue("ProvideMsgClientA", 1, <<ModuleKeyValue("b")>>)

\* the configuration phase: no build was started
InConfiguration ==
    /\ pc \in {"config", "failed"}
    /\ \A d \in 1..Len(descs) : descs[d].fn # "build"

\* C17 (Configs applies in order and stops at the first failure): once a
\* member has failed, no further member is applied and the container, the
\* invokers and the error stay as they are; the container and the error are
\* those of applying the members one after the other from the first, and
\* the member that failed is the last one applied; an Error(e) member fails
\* with e, so it is the last member applied.
C17_ConfigsStopAtFirstFailure ==
    /\ [][(err.kind # "none" /\ InConfiguration)
            => (/\ applied' = applied /\ ctr' = ctr /\ invokers' = invokers
                /\ descs' = descs /\ err' = err)]_vars
    /\ [](InConfiguration =>
            LET st == ApplyConfigs(applied)
            IN  /\ st.err = err
                /\ st.c = ctr
                /\ (err.kind # "none" => st.at = applied[Len(applied)]))
    /\ [](\A i \in 1..Len(applied) :
            applied[i].op = "Error" =>
                /\ i = Len(applied)
                /\ err = Err(applied[i].a, {})
                /\ pc = "failed")
    /\ [](\A i \in 1..(Len(applied) - 1) :
            ApplyConfigs(SubSeq(applied, 1, i)).err.kind = "none")

\* Configs(Provide(IntProvider5), Error(e), ...): int is registered, the
\* configuration failed with e and nothing more was applied
C17_Witness ==
    /\ pc = "failed"
    /\ applied = <<Provide("IntProvider5"), Error("ErrBadConfig")>>
    /\ err = Err("ErrBadConfig", {})
    /\ resolverByType(ctr, TInt).found
    /\ requested = <<>>

\* no binding
NoBinding == [op |-> "none", mod |-> NoKey, a |-> "", b |-> ""]

\* the binding of the configuration that applies to interface iface asked
\* for in scope key: the one made for that module, else the global one
AppliedBinding(iface, key) ==
    LET scoped == { i \in AppliedOps("BindInterfaceInModule") :
                      applied[i].a = iface /\ applied[i].mod = key }
        global == { i \in AppliedOps("BindInterface") : applied[i].a = iface }
    IN  IF key # NoKey /\ scoped # {} THEN applied[CHOOSE i \in scoped : TRUE]
        ELSE IF global # {} THEN applied[CHOOSE i \in global : TRUE]
        ELSE NoBinding

\* a provider registered so far produces the type named n
ImplProvided(n) ==
    \E d \in Providers : \E i \in 1..Len(descs[d].out) : descs[d].out[i] = Named(n)

\* the binding that applies to what is asked for names a type nobody provides
DanglingBinding(typ, key) ==
    /\ isInterface(typ)
    /\ AppliedBinding(typ.n, key).op # "none"
    /\ ~ImplProvided(AppliedBinding(typ.n, key).b)

\* the error for binding item b
NoTypeError(b) == Err(ErrNoTypeForExplicitBindingFound, {b.b, b.a, b.mod})

\* C18 (missing explicit binding): when a provider being called asks for an
\* interface to which a binding applies whose implementation type nobody
\* provides, the step fails with the no-type-for-explicit-binding error of
\* that binding (implementation, interface, module); no call was ever given
\* a value for such an input; and whenever that error is the outcome, it is
\* the error of a binding of the configuration whose implementation has no
\* resolver.
C18_MissingExplicitBinding ==
    /\ [][( /\ pc \in {"build", "invokers"}
            /\ err.kind = "none"
            /\ frames # <<>>
            /\ Top.kind = "call"
            /\ Top.entered
            /\ Top.i <= Len(descs[Top.d].in)
            /\ DanglingBinding(descs[Top.d].in[Top.i], Top.key) )
            => err' = NoTypeError(AppliedBinding(descs[Top.d].in[Top.i].n, Top.key))]_vars
    /\ [](\A n \in 1..Len(callLog) :
            \A i \in 1..Len(descs[callLog[n].d].in) :
                ~DanglingBinding(descs[callLog[n].d].in[i], callLog[n].key))
    /\ [](err.kind = ErrNoTypeForExplicitBindingFound =>
            \E i \in AppliedOps("BindInterface") \cup AppliedOps("BindInterfaceInModule") :
                /\ err = NoTypeError(applied[i])
                /\ ~resolverByTypeName(ctr, applied[i].b).found)

\* Mallard is provided and a consumer of Duck registered, then Duck is bound
\* to Canvasback, which nobody provides: the build for the consumer failed
\* with the error of the binding, not with the Mallard
C18_Witness ==
    /\ pc = "failed"
    /\ applied = <<Provide("ProvideMallard"), Provide("ProvideDuckWrapper"),
                   BindInterface("Duck", "Canvasback")>>
    /\ requested = <<SliceOf(Named("DuckWrapper"))>>
    /\ err = Err(ErrNoTypeForExplicitBindingFound, {"Canvasback", "Duck", ""})
    /\ callLog = <<>>

(***************************************************************************)
(* A second build of the same configuration in a fresh container, computed  *)
(* as one recursive evaluation: run is the record of that build's          *)
(* container c, its cache of provider values, its active callers, its      *)
(* error, its assigned outputs and its calls.  The one-per-module loop      *)
(* takes the modules in one fixed order.                                   *)
(***************************************************************************)
FreshRun(c) ==
    [c |-> c, cache |-> EmptyMap, callers |-> {}, err |-> NoErr, out |-> <<>>,
     log |-> <<>>]

RunFailed(run, e) == [run |-> [run EXCEPT !.err = e], v |-> ZeroValue]

RECURSIVE RunCall(_, _, _)
RECURSIVE RunInputs(_, _, _, _, _)
RECURSIVE RunResolve(_, _, _, _)
RECURSIVE RunProvider(_, _, _)
RECURSIVE RunGroup(_, _, _, _)
RECURSIVE RunMap(_, _, _, _)

\* the values of provider d for scope key: remembered, or called now
RunProvider(run, d, key) ==
    IF <<d, key>> \in DOMAIN run.cache
    THEN [run |-> run, v |-> run.cache[<<d, key>>]]
    ELSE RunCall(run, d, key)

RunCall(run, d, key) ==
    IF d \in run.callers
    THEN RunFailed(run, Err(ErrCyclicDependency, {descs[d].fn}))
    ELSE Let(RunInputs([run EXCEPT !.callers = @ \cup {d}], d, key, 1, <<>>),
             LAMBDA r :
                 IF r.run.err.kind # "none" THEN r
                 ELSE IF ProviderError(descs[d]).kind # "none"
                 THEN RunFailed([r.run EXCEPT
                                   !.callers = @ \ {d},
                                   !.log = Append(@, [d |-> d, key |-> key, in |-> r.v])],
                                ProviderError(descs[d]))
                 ELSE Let(DescValues(descs[d], r.v), LAMBDA values :
                          [run |-> [r.run EXCEPT
                                      !.callers = @ \ {d},
                                      !.cache = (<<d, key>> :> values) @@ @,
                                      !.out = IF descs[d].fn = "build" THEN r.v ELSE @,
                                      !.log = Append(@, [d |-> d, key |-> key,
                                                         in |-> r.v])],
                           v |-> values]))

RunInputs(run, d, key, i, inVals) ==
    IF i > Len(descs[d].in)
    THEN [run |-> run, v |-> inVals]
    ELSE Let(RunResolve(run, descs[d].in[i], key, descs[d].optional), LAMBDA r :
             IF r.run.err.kind # "none" THEN r
             ELSE RunInputs(r.run, d, key, i + 1, Append(inVals, r.v)))

RunResolve(run, typ, key, optional) ==
    IF typ \in {moduleKeyType, ownModuleKeyType}
    THEN IF key = NoKey
         THEN RunFailed(run, Err(ErrModuleScopeRequired, {typ.n}))
         ELSE [run |-> run, v |-> ModuleKeyValue(key)]
    ELSE Let(getResolver(run.c, typ, key), LAMBDA vr :
         Let([run EXCEPT !.c = vr.c], LAMBDA run2 :
         LET r == vr.res
             Output(k) == Let(RunProvider(run2, r.d, k), LAMBDA p :
                              IF p.run.err.kind # "none" THEN p
                              ELSE [run |-> p.run, v |-> p.v[r.idx]])
         IN  IF vr.err.kind # "none" THEN RunFailed(run2, vr.err)
             ELSE CASE r.kind = "nil" ->
                         IF optional THEN [run |-> run2, v |-> ZeroValue]
                         ELSE RunFailed(run2, Err(ErrMissingDependency,
                                                  {fullyQualifiedTypeName(typ)}))
                    [] r.kind = "simple" -> Output(r.key)
                    [] r.kind = "moduleDep" ->
                         IF key = NoKey
                         THEN RunFailed(run2, Err(ErrModuleScopeRequired, {typ.n}))
                         ELSE Output(key)
                    [] r.kind = "supply" -> [run |-> run2, v |-> r.value]
                    [] r.kind = "group" ->
                         RunFailed(run2, Err(ErrInvalidManyPerContainerType, {r.elem}))
                    [] r.kind = "sliceGroup" ->
                         IF run2.c.groups[r.elem].resolved
                         THEN [run |-> run2, v |-> run2.c.groups[r.elem].values]
                         ELSE RunGroup(run2, r.elem, 1, <<>>)
                    [] r.kind = "onePerModule" ->
                         RunFailed(run2, Err(ErrInvalidOnePerModuleType, {r.elem}))
                    [] r.kind = "mapOfOnePerModule" ->
                         IF run2.c.ones[r.elem].resolved
                         THEN [run |-> run2, v |-> run2.c.ones[r.elem].values]
                         ELSE RunMap(run2, r.elem,
                                     DOMAIN run2.c.ones[r.elem].providers, {})))

RunGroup(run, elem, i, acc) ==
    IF i > Len(run.c.groups[elem].providers)
    THEN [run |-> [run EXCEPT !.c.groups[elem].values = SliceValue(acc),
                              !.c.groups[elem].resolved = TRUE],
          v |-> SliceValue(acc)]
    ELSE LET d == run.c.groups[elem].providers[i]
         IN  Let(RunProvider(run, d, descs[d].key), LAMBDA p :
                 IF p.run.err.kind # "none" THEN p
                 ELSE RunGroup(p.run, elem, i + 1,
                               Return(<<[GroupFrame(elem) EXCEPT !.i = i, !.acc = acc]>>,
                                      p.v)[1].acc))

RunMap(run, elem, todo, acc) ==
    IF todo = {}
    THEN [run |-> [run EXCEPT !.c.ones[elem].values = MapValue(acc),
                              !.c.ones[elem].resolved = TRUE],
          v |-> MapValue(acc)]
    ELSE LET key == CHOOSE k \in todo : TRUE
             d == run.c.ones[elem].providers[key]
         IN  Let(RunProvider(run, d, descs[d].key), LAMBDA p :
                 IF p.run.err.kind # "none" THEN p
                 ELSE RunMap(p.run, elem, todo \ {key},
                             Return(<<[MapFrame(elem, todo) EXCEPT !.cur = key,
                                                                  !.acc = acc]>>,
                                    p.v)[1].acc))

RECURSIVE RunInvokers(_, _)
RunInvokers(run, i) ==
    IF i > Len(invokers) \/ run.err.kind # "none"
    THEN run
    ELSE Let(RunCall(run, invokers[i].fn, invokers[i].modKey), LAMBDA r :
             RunInvokers(r.run, i + 1))

\* a build has been started: its descriptor is the last one
BuildStarted == descs # <<>> /\ descs[Len(descs)].fn = "build"

\* the second build: the configuration applied to a fresh container, the
\* same outputs requested
SecondBuild ==
    Let(ApplyConfigs(applied), LAMBDA st :
        IF st.err.kind # "none" \/ ~BuildStarted
        THEN [FreshRun(st.c) EXCEPT !.err = st.err]
        ELSE Let(addNode(st.c, Len(descs), requested, <<>>, NoKey), LAMBDA n :
                 IF n.err.kind # "none"
                 THEN [FreshRun(n.c) EXCEPT !.err = n.err]
                 ELSE Let(RunCall(FreshRun(n.c), Len(descs), NoKey), LAMBDA b :
                          RunInvokers(b.run, 1))))

\* C14 (determinism): when a build is over, a second build of the same
\* configuration for the same outputs in a fresh container, which takes the
\* modules of a one-per-module map in its own order, ends the same way: it
\* fails with the same error or it succeeds with equal output values.
C14_Determinism ==
    pc \in {"done", "failed"} =>
        Let(SecondBuild, LAMBDA second :
            /\ second.err.kind = err.kind
            /\ (pc = "done" => second.out = outputs))

\* the scenario of the tests, built twice: the two builds called the module
\* providers in different orders and assigned the same four outputs
C14_Witness ==
    /\ pc = "done"
    /\ suite = "Scenario"
    /\ Len(requested) = 4
    /\ Cardinality(outputs[1].entries) = 2
    /\ SecondBuild.out = outputs
    /\ SecondBuild.log # callLog

\* the named types the walk of t reaches: through the elements of arrays,
\* slices, channels and pointers, the keys and values of maps, and the
\* parameters and results of functions; a named type is not entered
RECURSIVE ReachedNamed(_)
ReachedNamed(t) ==
    IF t.name # <<>>
    THEN IF t.pkg # <<>> THEN {t} ELSE {}
    ELSE IF t.kind \in {"array", "slice", "chan", "ptr", "map", "func"}
    THEN UNION ({ ReachedNamed(t.in[i]) : i \in 1..Len(t.in) }
                \cup { ReachedNamed(t.out[i]) : i \in 1..Len(t.out) })
    ELSE {}

\* Go exports a name that begins with an upper-case letter
Unexported(t) == t.name[1] \notin UpperLetters

\* path has a segment equal to word
HasSegment(path, word) ==
    \E i \in 1..(Len(path) - Len(word) + 1) :
        /\ SubSeq(path, i, i + Len(word) - 1) = word
        /\ (i = 1 \/ path[i - 1] = "/")
        /\ (i + Len(word) - 1 = Len(path) \/ path[i + Len(word)] = "/")

\* C16 (type visibility): isExportedType returns an error for a type exactly
\* when the walk of the type reaches a named type that is unexported or
\* whose package path has a segment internal; the error is the not-exported
\* error only if an unexported type is reached and the internal-package
\* error only if a type of an internal package is reached.
C16_TypeVisibility ==
    checkResult # Pending =>
        /\ (checkResult.kind # "none") <=>
               \E t \in ReachedNamed(checkedType) :
                   Unexported(t) \/ HasSegment(t.pkg, internalWord)
        /\ checkResult.kind = ErrTypeNotExported =>
               \E t \in ReachedNamed(checkedType) : Unexported(t)
        /\ checkResult.kind = ErrInternalPackage =>
               \E t \in ReachedNamed(checkedType) : HasSegment(t.pkg, internalWord)


\* what call b has registered once its hook is applied, from its option and
\* the outcome of its container alone
Registered(b) ==
    Let(applyConfig(builds[b].opt, newDebugConfig), LAMBDA c :
        applyConfig(IF builds[b].failed THEN c.onError ELSE c.onSuccess, c))

HookOf(b) ==
    LET c == applyConfig(builds[b].opt, newDebugConfig)
    IN  IF builds[b].failed THEN c.onError ELSE c.onSuccess

\* the hook, then every registered visualizer once, then every registered
\* cleanup function once, both in the order of registration
ReleaseTrace(b) ==
    Let(Registered(b), LAMBDA c :
        <<[ev |-> "hook", what |-> HookOf(b)]>>
        \o [n \in 1..Len(c.visualizers) |-> [ev |-> "visualizer", what |-> c.visualizers[n]]]
        \o [n \in 1..Len(c.cleanup) |-> [ev |-> "cleanup", what |-> c.cleanup[n]]])

\* C20: whether its container was built or not, a call that has returned has
\* applied its hook, then handed the graph to every registered visualizer
\* exactly once, then run every registered cleanup function exactly once in
\* the order of registration; nothing of this happens after the return.
C20_GuaranteedRelease ==
    /\ [](\A b \in DOMAIN builds :
             builds[b].pc = "returned" => builds[b].trace = ReleaseTrace(b))
    /\ [][\A b \in DOMAIN builds :
             builds[b].pc = "returned" => builds'[b] = builds[b]]_vars

\* a failed call and a successful one have both returned, each having called
\* two visualizers and three cleanup functions, the hook's among them
C20_Witness ==
    /\ DOMAIN builds = Builds
    /\ \A b \in Builds : builds[b].pc = "returned" /\ builds[b].opt = CallerDebug
    /\ builds[1].failed /\ ~builds[2].failed
    /\ Len(builds[1].trace) = 6
    /\ builds[1].trace[3].what.name = "v2"
    /\ builds[2].trace[5].what.name = "c3"

RECURSIVE VisualizeAlone(_, _, _, _)
RECURSIVE CleanupAlone(_, _, _)

VisualizeAlone(vs, n, b, fs) ==
    IF n > Len(vs) THEN fs
    ELSE VisualizeAlone(vs, n + 1, b, callVisualizer(vs[n], b, fs))

CleanupAlone(cs, n, fs) ==
    IF n > Len(cs) THEN fs
    ELSE CleanupAlone(cs, n + 1, callCleanup(cs[n], fs))

\* the working directory that call b leaves when no other call runs
FilesAlone(b) ==
    Let(Registered(b), LAMBDA c :
        CleanupAlone(c.cleanup, 1,
            VisualizeAlone(c.visualizers, 1, b,
                [f \in {defaultDebugFile} |-> Absent])))

Returns(b) == builds[b].pc # "returned" /\ builds'[b].pc = "returned"

\* the files that call b writes or removes
Touched(b) ==
    Let(Registered(b), LAMBDA c :
        { c.visualizers[n].name : n \in { m \in 1..Len(c.visualizers) :
                                            c.visualizers[m].kind = "file" } }
        \cup { c.cleanup[n].name : n \in { m \in 1..Len(c.cleanup) :
                                           c.cleanup[m].kind = "delete" } })

\* C19: two calls, each with its own configuration, whose steps interleave:
\* when a call returns, the calls it made are those it makes alone, and every
\* file it writes or removes is as the call leaves it when it runs alone.
C19_IndependentBuilds ==
    [][\A b \in DOMAIN builds :
          Returns(b) => /\ builds[b].trace = ReleaseTrace(b)
                        /\ \A f \in Touched(b) : files'[f] = FilesAlone(b)[f]]_vars


\* the hook options call b has applied so far
AppliedHooks(b) ==
    { builds[b].trace[n].what :
        n \in { m \in 1..Len(builds[b].trace) :
                  /\ builds[b].trace[m].ev = "hook"
                  /\ builds[b].trace[m].what # NilOption } }

HookEvents(b) ==
    Cardinality({ m \in 1..Len(builds[b].trace) : builds[b].trace[m].ev = "hook" })

\* the option registered by OnError, by OnSuccess, when the debug option of
\* call b has been applied
RegisteredOnError(b) == applyConfig(builds[b].opt, newDebugConfig).onError

RegisteredOnSuccess(b) == applyConfig(builds[b].opt, newDebugConfig).onSuccess

\* C21: in one call the hook is looked at once, after the container was built
\* or failed; the option of OnError is applied if and only if the call failed
\* and the option of OnSuccess if and only if it did not, never both and none
\* twice.
C21_HookExclusivity ==
    \A b \in DOMAIN builds :
       /\ builds[b].pc \in {"start", "performed"} => HookEvents(b) = 0
       /\ builds[b].pc \in {"deferred", "returned"} =>
             /\ HookEvents(b) = 1
             /\ RegisteredOnError(b) # NilOption =>
                   (RegisteredOnError(b) \in AppliedHooks(b) <=> builds[b].failed)
             /\ RegisteredOnSuccess(b) # NilOption =>
                   (RegisteredOnSuccess(b) \in AppliedHooks(b) <=> ~builds[b].failed)
             /\ Cardinality(AppliedHooks(b)) <= 1

\* a failed call of a caller's option has applied the OnError option and a
\* successful call of AutoDebug the OnSuccess option
C21_Witness ==
    /\ DOMAIN builds = Builds
    /\ builds[1].pc = "returned" /\ builds[1].opt = CallerDebug /\ builds[1].failed
    /\ AppliedHooks(1) = {RegisteredOnError(1)}
    /\ builds[2].pc = "returned" /\ builds[2].opt = AutoDebug /\ ~builds[2].failed
    /\ AppliedHooks(2) = {DebugCleanupDelete(defaultDebugFile)}


\* the visualizers, the cleanup functions, that call b has called so far
EventsOf(b, ev) ==
    SelectSeq(builds[b].trace, LAMBDA e : e.ev = ev)

\* call b takes the step that calls a visualizer, a cleanup function
MakesCall(b, ev) ==
    /\ Len(builds'[b].trace) = Len(builds[b].trace) + 1
    /\ builds'[b].trace[Len(builds'[b].trace)].ev = ev

\* C22: a call of AutoDebug that failed has applied Debug: it calls the file
\* visualizer of the default debug file, which then holds its graph, and no
\* cleanup function; one that succeeded calls no visualizer, so writes no
\* file, and its cleanup removes the default debug file, there or not.
C22_AutoDebug ==
    /\ [](\A b \in DOMAIN builds :
            builds[b].opt = AutoDebug /\ builds[b].pc = "returned" =>
               IF builds[b].failed
               THEN /\ EventsOf(b, "visualizer") =
                          <<[ev |-> "visualizer",
                             what |-> [kind |-> "file", name |-> defaultDebugFile]]>>
                    /\ EventsOf(b, "cleanup") = <<>>
                    /\ \E n \in DOMAIN builds[b].cfg.loggers :
                          builds[b].cfg.loggers[n] = "stderr"
               ELSE /\ EventsOf(b, "visualizer") = <<>>
                    /\ EventsOf(b, "cleanup") =
                          <<[ev |-> "cleanup",
                             what |-> [kind |-> "delete", name |-> defaultDebugFile]]>>)
    /\ [][\A b \in DOMAIN builds :
            builds[b].opt = AutoDebug =>
               /\ MakesCall(b, "visualizer") => files'[defaultDebugFile] = {b}
               /\ MakesCall(b, "cleanup") => files'[defaultDebugFile] = Absent
               /\ (~MakesCall(b, "visualizer") /\ ~MakesCall(b, "cleanup")
                     /\ builds'[b] # builds[b]) => files' = files]_vars

\* a failed call of AutoDebug has returned, having written the default debug
\* file, and a successful one after it, whose cleanup removed the file
C22_Witness ==
    /\ DOMAIN builds = Builds
    /\ builds[1].opt = AutoDebug /\ builds[1].failed /\ builds[1].pc = "returned"
    /\ builds[2].opt = AutoDebug /\ ~builds[2].failed /\ builds[2].pc = "returned"
    /\ Len(builds[1].trace) = 2 /\ Len(builds[2].trace) = 2
    /\ files[defaultDebugFile] = Absent


\* the Locations of the calls in progress that passed the cycle check, from
\* the outermost to the innermost
ActiveCallers ==
    LET entered == SelectSeq(frames, LAMBDA f : f.kind = "call" /\ f.entered)
    IN  [n \in 1..Len(entered) |-> entered[n].d]

\* C23: the active-call stack and the membership set hold exactly the calls
\* in progress, so a call that has returned, with values, with a cyclic-
\* dependency error, with the error of an input or with the error of its
\* provider, has left both as it found them; with no call in progress both
\* are empty.
C23_CallRestoresStack ==
    /\ callerStack = ActiveCallers
    /\ callerMap = { ActiveCallers[n] : n \in 1..Len(ActiveCallers) }
    /\ frames = <<>> => callerStack = <<>> /\ callerMap = {}

\* a provider called for an input of another returned an error: its call has
\* returned and the stack holds the two callers that were active before it
C23_Witness ==
    /\ suite = "Failure"
    /\ pc = "build"
    /\ err.kind = ErrProviderCall
    /\ Len(frames) = 2
    /\ Len(callerStack) = 2
    /\ descs[callerStack[2]].fn = "FloatStrPtrToStr"
    /\ \E n \in 1..Len(callLog) : descs[callLog[n].d].fn = "IntToFloatErr"


\* the functions called so far, in the order of the calls
CalledFns == [n \in 1..Len(callLog) |-> descs[callLog[n].d].fn]

\* C24: the inputs of a call are resolved from the first to the last, each
\* value going after those resolved before it; once an input has failed,
\* nothing more is resolved, cached, assigned or called: the calls in
\* progress only return.
C24_InputsLeftToRight ==
    /\ [](\A n \in 1..Len(frames) :
             frames[n].kind = "call" =>
                /\ frames[n].i = Len(frames[n].inVals) + 1
                /\ frames[n].i <= Len(descs[frames[n].d].in) + 1)
    /\ [][\A n \in 1..Len(frames) :
             (n <= Len(frames') /\ frames[n].kind = "call") =>
                /\ frames'[n].kind = "call" /\ frames'[n].d = frames[n].d
                /\ Len(frames'[n].inVals) <= Len(frames[n].inVals) + 1
                /\ SubSeq(frames'[n].inVals, 1, Len(frames[n].inVals)) = frames[n].inVals]_vars
    /\ [][(err.kind # "none" /\ pc \in {"build", "invokers"}) =>
             /\ frames' = Below
             /\ callLog' = callLog /\ cache' = cache /\ ctr' = ctr
             /\ outputs' = outputs /\ err' = err]_vars
    /\ [](\A n \in 1..Len(callLog) :
             Len(callLog[n].in) = Len(descs[callLog[n].d].in))

\* string is asked of a provider that takes a float64 and a *string: the
\* provider of float64 failed, so the registered provider of *string was not
\* called, nor the provider of string
C24_Witness ==
    /\ suite = "Failure"
    /\ pc = "failed"
    /\ requested = <<TString>>
    /\ err = Err(ErrProviderCall, {"IntToFloatErr"})
    /\ Listed(Provide("StringPtrProviderFoo"))
    /\ CalledFns = <<"IntProvider5", "IntToFloatErr">>


\* the call in progress is about to resolve the collection form of a group
\* that is resolved
ResolvingResolvedGroup ==
    /\ pc \in {"build", "invokers"}
    /\ err.kind = "none"
    /\ frames # <<>>
    /\ Top.kind = "call"
    /\ Top.entered
    /\ Top.i <= Len(descs[Top.d].in)
    /\ isManyPerContainerSliceType(descs[Top.d].in[Top.i])
    /\ descs[Top.d].in[Top.i].n \in DOMAIN ctr.groups
    /\ ctr.groups[descs[Top.d].in[Top.i].n].resolved

RECURSIVE GroupValues(_, _, _)

\* the sequence made of the remembered values of the providers of group g,
\* from provider i on
GroupValues(g, i, acc) ==
    IF i > Len(g.providers) THEN acc
    ELSE GroupValues(g, i + 1,
             appendValue(acc, cache[<<g.providers[i], descs[g.providers[i]].key>>]
                                   [g.idxsInValues[i]]))

\* C25: a resolved group stays as it is; a later resolution of its collection
\* form gives the remembered sequence at once, with no call and no loop over
\* the providers; the group becomes resolved only at the end of a loop in
\* which every provider gave its values, and then it is resolved and holds
\* the sequence of those values.
C25_GroupIdempotent ==
    /\ [][\A e \in DOMAIN ctr.groups :
             ctr.groups[e].resolved =>
                e \in DOMAIN ctr'.groups /\ ctr'.groups[e] = ctr.groups[e]]_vars
    /\ [][ResolvingResolvedGroup =>
             /\ frames' = GiveInput(frames, ctr.groups[descs[Top.d].in[Top.i].n].values)
             /\ callLog' = callLog /\ cache' = cache /\ err' = err]_vars
    /\ [][\A e \in DOMAIN ctr'.groups :
             (ctr'.groups[e].resolved
                /\ (e \in DOMAIN ctr.groups => ~ctr.groups[e].resolved)) =>
                /\ err.kind = "none" /\ err'.kind = "none"
                /\ frames # <<>> /\ Top.kind = "group" /\ Top.elem = e
                /\ Top.i > Len(ctr.groups[e].providers)]_vars
    /\ [][(frames # <<>> /\ Top.kind = "group" /\ err.kind = "none"
             /\ Len(frames') < Len(frames)) =>
             /\ ctr'.groups[Top.elem].resolved
             /\ frames' = GiveInput(Below, ctr'.groups[Top.elem].values)]_vars
    /\ [](\A e \in DOMAIN ctr.groups :
             ctr.groups[e].resolved =>
                /\ \A i \in 1..Len(ctr.groups[e].providers) :
                      Cached(ctr.groups[e].providers[i],
                             descs[ctr.groups[e].providers[i]].key)
                /\ ctr.groups[e].values = SliceValue(GroupValues(ctr.groups[e], 1, <<>>)))
    /\ [](\A n \in 1..Len(frames) :
             frames[n].kind = "group" => ~ctr.groups[frames[n].elem].resolved)

\* []Command was requested twice in one build: both outputs are the same
\* sequence of three elements and no provider was called twice
C25_Witness ==
    /\ suite = "Scenario"
    /\ pc = "done"
    /\ requested = <<SliceOf(Named("Command")), SliceOf(Named("Command"))>>
    /\ outputs[1] = outputs[2]
    /\ Len(outputs[1].elems) = 3
    /\ \A m, n \in 1..Len(callLog) :
          (callLog[m].d = callLog[n].d /\ callLog[m].key = callLog[n].key) => m = n


\* the call in progress is about to resolve an input of the bare element
\* type of a group
ResolvingBareElement ==
    /\ pc \in {"build", "invokers"}
    /\ err.kind = "none"
    /\ frames # <<>>
    /\ Top.kind = "call"
    /\ Top.entered
    /\ Top.i <= Len(descs[Top.d].in)
    /\ isManyPerContainerType(descs[Top.d].in[Top.i])

\* C26: resolving an input of the bare element type of a group fails with
\* the invalid-many-per-container-type error, however many providers
\* contribute to the group and resolved or not.
C26_BareElementType ==
    [][ResolvingBareElement =>
          err' = Err(ErrInvalidManyPerContainerType, {descs[Top.d].in[Top.i].n})]_vars


\* the providers that contribute to the group of element type e
Contributors(e) ==
    IF e \in DOMAIN ctr.groups THEN ctr.groups[e].providers ELSE <<>>

\* the call in progress is about to resolve the collection form of a group
\* that no provider contributes to
ResolvingEmptyGroup ==
    /\ pc \in {"build", "invokers"}
    /\ err.kind = "none"
    /\ frames # <<>>
    /\ Top.kind = "call"
    /\ Top.entered
    /\ Top.i <= Len(descs[Top.d].in)
    /\ isManyPerContainerSliceType(descs[Top.d].in[Top.i])
    /\ Contributors(descs[Top.d].in[Top.i].n) = <<>>

\* C27: resolving the collection form of a group that no provider contributes
\* to is no error: the loop over the contributors starts, or the group is
\* resolved and its empty sequence is given; the loop ends at once, with the
\* empty sequence.
C27_EmptyGroup ==
    /\ [][ResolvingEmptyGroup =>
             /\ err'.kind = "none"
             /\ \/ frames' = Append(frames, GroupFrame(descs[Top.d].in[Top.i].n))
                \/ frames' = GiveInput(frames, SliceValue(<<>>))]_vars
    /\ [][(frames # <<>> /\ Top.kind = "group" /\ err.kind = "none"
             /\ Contributors(Top.elem) = <<>>) =>
             /\ err'.kind = "none"
             /\ frames' = GiveInput(Below, SliceValue(<<>>))]_vars

\* with nothing registered, []Command requested twice gives two empty
\* sequences
C27_Witness ==
    /\ suite = "Scenario"
    /\ pc = "done"
    /\ applied = <<>>
    /\ requested = <<SliceOf(Named("Command")), SliceOf(Named("Command"))>>
    /\ outputs = <<SliceValue(<<>>), SliceValue(<<>>)>>
    /\ Len(callLog) = 1


\* the interface types under which a resolver is stored
BoundImplicitly ==
    { n \in InterfaceNames : resolverByType(ctr, Named(n)).found }

\* the scopes a lookup can be made for
LookupScopes == {NoKey} \cup { descs[d].key : d \in 1..Len(descs) }

\* the call in progress is about to resolve an interface with no binding
\* and no stored resolver, which exactly one registered type implements
ResolvingUnboundInterface ==
    /\ pc \in {"build", "invokers"}
    /\ err.kind = "none"
    /\ frames # <<>>
    /\ Top.kind = "call"
    /\ Top.entered
    /\ Top.i <= Len(descs[Top.d].in)
    /\ isInterface(descs[Top.d].in[Top.i])
    /\ AppliedBinding(descs[Top.d].in[Top.i].n, Top.key).op = "none"
    /\ ~resolverByType(ctr, descs[Top.d].in[Top.i]).found
    /\ Cardinality(findImplementingTypes(ctr, descs[Top.d].in[Top.i])) = 1

\* as first stated: once a resolver is stored under the interface, every
\* lookup of the interface, for whatever scope, returns it
C28_CachedForEveryLookup ==
    \A n \in BoundImplicitly : \A key \in LookupScopes :
       getResolver(ctr, Named(n), key) =
          [res |-> resolverByType(ctr, Named(n)).r, err |-> NoErr, c |-> ctr]

\* C28: a lookup of an interface with no binding that finds exactly one
\* implementing resolver stores it under the interface type; a stored
\* resolver is that of a registered implementing type and never changes;
\* every later lookup of the interface for a scope to which no explicit
\* binding applies returns it and leaves the container as it is.
C28_ImplicitBindingCached ==
    /\ [][ResolvingUnboundInterface =>
             LET typ == descs[Top.d].in[Top.i]
                 impl == CHOOSE m \in findImplementingTypes(ctr, typ) : TRUE
             IN  /\ resolverByType(ctr', typ).found
                 /\ resolverByType(ctr', typ).r = resolverByType(ctr, impl).r]_vars
    /\ [][\A n \in BoundImplicitly :
             resolverByType(ctr', Named(n)) = resolverByType(ctr, Named(n))]_vars
    /\ [](\A n \in BoundImplicitly :
             \E m \in findImplementingTypes(ctr, Named(n)) :
                resolverByType(ctr, m).r = resolverByType(ctr, Named(n)).r)
    /\ [](\A n \in BoundImplicitly : \A key \in LookupScopes :
             AppliedBinding(n, key).op = "none" =>
                getResolver(ctr, Named(n), key) =
                   [res |-> resolverByType(ctr, Named(n)).r, err |-> NoErr, c |-> ctr])

\* Duck was stored for Mallard when its consumer was registered before any
\* other duck; Canvasback came later, and the build for the consumer used
\* the Mallard without the ambiguity being seen
C28_Witness ==
    /\ suite = "Binding"
    /\ pc = "done"
    /\ applied = <<Provide("ProvideMallard"), Provide("ProvideDuckWrapper"),
                   Provide("ProvideCanvasback")>>
    /\ "Duck" \in BoundImplicitly
    /\ resolverByType(ctr, Named("Duck")).r = resolverByType(ctr, Named("Mallard")).r
    /\ Len(outputs[1].elems) = 1


\* C29: within one container, two module keys handed to the registration of
\* ProvideInModule, InvokeInModule or BindInterfaceInModule are the same key
\* if and only if they were asked for the same module name.
C29_ScopeKeyInterning ==
    \A i, j \in 1..Len(moduleKeys) :
       moduleKeys[i].id = moduleKeys[j].id <=> moduleKeys[i].name = moduleKeys[j].name

\* a step that registers a provider, and the descriptor it registers
RegistersProvider ==
    /\ Len(applied') = Len(applied) + 1
    /\ applied'[Len(applied')].op \in {"Provide", "ProvideInModule"}
    /\ Len(descs') = Len(descs) + 1

NewDesc == descs'[Len(descs')]

\* the outputs of the provider being registered that go to the
\* one-per-module resolver of elem, and those that go to the group of elem
OnePerModuleOutputs(elem) ==
    { i \in 1..Len(NewDesc.out) : NewDesc.out[i] = Named(elem) }

GroupOutputs(elem) ==
    { i \in 1..Len(NewDesc.out) :
        NewDesc.out[i] \in {Named(elem), SliceOf(Named(elem))} }

\* the module of the provider being registered already contributes to elem
SecondFromModule(elem) ==
    /\ RegistersProvider
    /\ ~hasModuleKeyParam(NewDesc.in)
    /\ NewDesc.key # NoKey
    /\ elem \in DOMAIN ctr.ones
    /\ NewDesc.key \in DOMAIN ctr.ones[elem].providers
    /\ OnePerModuleOutputs(elem) # {}

\* the registration got as far as output i of the provider
ReachedOutput(i) ==
    /\ ~hasModuleKeyParam(NewDesc.in)
    /\ \/ err'.kind = "none"
       \/ /\ err'.kind \in {ErrDuplicateDefinition, ErrDuplicateModuleScope,
                            ErrModuleScopeRequired}
          /\ \E j \in i..Len(NewDesc.out) :
                 err'.info \cap {fullyQualifiedTypeName(NewDesc.out[j]),
                                 fullyQualifiedTypeName(Elem(NewDesc.out[j]))} # {}

\* C30: the registration of a provider whose module already contributes to
\* a one-per-module type it outputs fails, with the duplicate error of the
\* module scope once that output is reached, and leaves the contributions
\* to the type as they are; that error is returned for nothing else.  A
\* contribution to a group is never refused: each output of the element
\* type or its slice that is reached adds the provider to the group, however
\* many providers, of whatever module, contribute already.
C30_DuplicateContribution ==
    /\ [][\A elem \in OnePerModuleNames :
             SecondFromModule(elem) =>
                /\ pc' = "failed"
                /\ err'.kind # "none"
                /\ ctr'.ones[elem].providers = ctr.ones[elem].providers
                /\ (\E i \in OnePerModuleOutputs(elem) : ReachedOutput(i))
                      => err' = Err(ErrDuplicateModuleScope, {elem, NewDesc.key})]_vars
    /\ [][err'.kind = ErrDuplicateModuleScope /\ err.kind = "none" =>
             \E elem \in OnePerModuleNames :
                /\ SecondFromModule(elem)
                /\ err'.info = {elem, NewDesc.key}]_vars
    /\ [][RegistersProvider =>
             \A elem \in ManyPerContainerNames :
                LET new == { i \in GroupOutputs(elem) : ReachedOutput(i) }
                IN  /\ err'.kind \in {ErrDuplicateDefinition, ErrDuplicateModuleScope}
                       => err'.info \cap {elem, "[]" \o elem} = {}
                    /\ new # {} =>
                         /\ elem \in DOMAIN ctr'.groups
                         /\ Len(ctr'.groups[elem].providers) =
                               Len(Contributors(elem)) + Cardinality(new)
                         /\ \A n \in 1..Len(ctr'.groups[elem].providers) :
                               ctr'.groups[elem].providers[n] =
                                  IF n <= Len(Contributors(elem))
                                  THEN Contributors(elem)[n]
                                  ELSE Len(descs')]_vars

\* ModuleA.Provide and ModuleB.Provide are both registered in module a: the
\* group of Command has taken the contribution of both, and the Handler of
\* the second is refused
C30_Witness ==
    /\ suite = "Scenario"
    /\ pc = "failed"
    /\ err = Err(ErrDuplicateModuleScope, {"Handler", "a"})
    /\ "Command" \in DOMAIN ctr.groups
    /\ Len(ctr.groups["Command"].providers) = 2
    /\ \A n \in 1..2 : descs[ctr.groups["Command"].providers[n]].key = "a"
    /\ DOMAIN ctr.ones["Handler"].providers = {"a"}
    /\ descs[ctr.ones["Handler"].providers["a"]].fn = "ModuleAProvide"

\* a step that applies an Invoke or InvokeInModule in a named scope or in
\* the global one
RegistersInvoker ==
    /\ Len(applied') = Len(applied) + 1
    /\ applied'[Len(applied')].op \in {"Invoke", "InvokeInModule"}
    /\ applied'[Len(applied')].op = "InvokeInModule" => applied'[Len(applied')].mod # ""

\* C31: applying Invoke or InvokeInModule for a function that declares an
\* output other than an error fails the application with the invalid
\* invoker error and leaves the invoker list and the registry as they were;
\* a function with no such output is appended to the invoker list; so no
\* function on the invoker list declares an output.
C31_InvalidInvoker ==
    /\ [][RegistersInvoker =>
             LET item == applied'[Len(applied')]
             IN  IF Funcs[item.a].out # <<>>
                 THEN /\ pc' = "failed"
                      /\ err' = Err(ErrInvalidInvoker, {item.a})
                      /\ invokers' = invokers
                      /\ ctr' = ctr
                 ELSE /\ pc' = pc
                      /\ err'.kind = "none"
                      /\ Len(invokers') = Len(invokers) + 1
                      /\ SubSeq(invokers', 1, Len(invokers)) = invokers
                      /\ descs'[invokers'[Len(invokers')].fn].fn = item.a]_vars
    /\ [](\A k \in 1..Len(invokers) : descs[invokers[k].fn].out = <<>>)

\* IntProvider5, which returns an int, is given to Invoke after a proper
\* invoker was registered
C31_Witness ==
    /\ suite = "Invoke"
    /\ pc = "failed"
    /\ err = Err(ErrInvalidInvoker, {"IntProvider5"})
    /\ Len(applied) > 1
    /\ applied[Len(applied)] = Invoke("IntProvider5")
    /\ Len(invokers) = 1
    /\ descs[invokers[1].fn].fn = "IntStringPointerInvoker"

\* a step that applies ProvideInModule or InvokeInModule with the empty
\* module name
AppliesEmptyModuleName ==
    /\ Len(applied') = Len(applied) + 1
    /\ applied'[Len(applied')].op \in {"ProvideInModule", "InvokeInModule"}
    /\ applied'[Len(applied')].mod = ""

\* C32: ProvideInModule and InvokeInModule with the empty module name fail
\* with ErrEmptyModuleName when applied; the registry, the invoker list, the
\* descriptors and the module keys are left as they were, so there is never
\* a module key for the empty name nor a provider or invoker registered by
\* such a call.
C32_EmptyModuleName ==
    /\ [][AppliesEmptyModuleName =>
             /\ pc' = "failed"
             /\ err' = Err(ErrEmptyModuleName, {})
             /\ ctr' = ctr
             /\ invokers' = invokers
             /\ descs' = descs
             /\ moduleKeyContext' = moduleKeyContext
             /\ moduleKeys' = moduleKeys]_vars
    /\ []("" \notin DOMAIN moduleKeyContext)
    /\ [](\A k \in 1..Len(moduleKeys) :
             moduleKeys[k].by \in {"ProvideInModule", "InvokeInModule"}
                => moduleKeys[k].name # "")
    /\ [](err.kind = ErrEmptyModuleName =>
             /\ pc = "failed"
             /\ applied[Len(applied)].op \in {"ProvideInModule", "InvokeInModule"}
             /\ applied[Len(applied)].mod = "")

\* after two providers are registered, ProvideInModule with the empty name
\* fails and leaves the two
C32_Witness ==
    /\ suite = "Failure"
    /\ pc = "failed"
    /\ err = Err(ErrEmptyModuleName, {})
    /\ Len(applied) = 3
    /\ applied[3] = ProvideInModule("", "IntProvider5")
    /\ Len(descs) = 2
    /\ moduleKeys = <<>>

\* the loggers of call b that are the closure over the buffer, and the others
BufferLoggers(b) ==
    { i \in 1..Len(builds[b].cfg.loggers) : builds[b].cfg.loggers[i] = "logBuf" }

CallerLoggers(b) ==
    { i \in 1..Len(builds[b].cfg.loggers) : builds[b].cfg.loggers[i] # "logBuf" }

RECURSIVE ConfiguresHook(_)
\* the option is OnError or OnSuccess, or a bundle that applies one of them
\* (no member before it returns an error)
ConfiguresHook(option) ==
    \/ option.op \in {"OnError", "OnSuccess"}
    \/ /\ option.op = "DebugOptions"
       /\ \E i \in 1..Len(option.opts) :
              /\ ConfiguresHook(option.opts[i])
              /\ firstError(SubSeq(option.opts, 1, i - 1), 1) = Nil

\* call b registers a logger in this step
RegistersLogger(b) ==
    Len(builds'[b].cfg.loggers) > Len(builds[b].cfg.loggers)
        /\ builds[b].pc = "performed"

\* C33: a call whose option configures OnError or OnSuccess, or both, has one
\* buffer, which holds every message logged since, each once and in the
\* order logged; a logger registered later, by the hook, is called with the
\* whole buffer in that order after its own greeting, and with every message
\* logged after that, so that what it received is the log of the call from
\* its start; a call with neither option has no buffer.
C33_BufferedLogReplay ==
    /\ [](\A b \in Builds :
            LET c == builds[b].cfg
            IN  /\ (builds[b].pc # "start" /\ ConfiguresHook(builds[b].opt))
                      => /\ c.logBuf
                         /\ Cardinality(BufferLoggers(b)) = 1
                         /\ c.buf = c.emitted
                /\ ~ConfiguresHook(builds[b].opt)
                      => ~c.logBuf /\ BufferLoggers(b) = {} /\ c.buf = <<>>
                /\ \A i \in 1..Len(c.emitted) : c.emitted[i].n = i
                /\ \A i \in CallerLoggers(b) :
                      c.logBuf => c.sinks[i] = <<Greeting>> \o c.buf)
    /\ [][\A b \in Builds :
            RegistersLogger(b) =>
               \A i \in (Len(builds[b].cfg.loggers) + 1)..Len(builds'[b].cfg.loggers) :
                  /\ builds[b].cfg.buf # <<>>
                  /\ builds'[b].cfg.sinks[i] =
                        <<Greeting>> \o builds[b].cfg.buf
                           \o SubSeq(builds'[b].cfg.emitted,
                                     Len(builds[b].cfg.buf) + 1,
                                     Len(builds'[b].cfg.emitted))]_vars
    /\ [][\A b \in Builds :
            \A i \in 1..Len(builds[b].cfg.sinks) :
               /\ i <= Len(builds'[b].cfg.sinks)
               /\ Len(builds'[b].cfg.sinks[i]) >= Len(builds[b].cfg.sinks[i])
               /\ SubSeq(builds'[b].cfg.sinks[i], 1, Len(builds[b].cfg.sinks[i]))
                     = builds[b].cfg.sinks[i]]_vars

\* Inject fails to apply the configuration: the stderr logger that the error
\* hook registers gets the three messages buffered until then, and after
\* them the message of the file visualizer
C33_Witness ==
    /\ builds[1].pc = "returned"
    /\ builds[1].opt = AutoDebug
    /\ builds[1].failed
    /\ builds[1].cfg.loggers = <<"logBuf", "stderr">>
    /\ builds[1].cfg.sinks[2] =
          <<Greeting,
            [text |-> "Registering providers", n |-> 1],
            [text |-> "Failed registering providers", n |-> 2],
            [text |-> "Error", n |-> 3],
            [text |-> "Saved graph of container", n |-> 4]>>
    /\ Len(builds[1].cfg.buf) = 4

\* the call on top is about to start, and the call on top is about to
\* return the values of its function
StartsCall ==
    /\ pc \in {"build", "invokers"}
    /\ err.kind = "none"
    /\ frames # <<>>
    /\ Top.kind = "call"
    /\ ~Top.entered

CompletesCall ==
    /\ pc \in {"build", "invokers"}
    /\ err.kind = "none"
    /\ frames # <<>>
    /\ Top.kind = "call"
    /\ Top.entered
    /\ Top.i > Len(descs[Top.d].in)
    /\ ProviderError(descs[Top.d]).kind = "none"

\* the names of the Locations that the functions called so far belong to
CalledNames == { descs[callLog[i].d].fn : i \in 1..Len(callLog) }

\* the graph but for the node of the call on top, which has status st
OnlyTopMarked(st) ==
    /\ DOMAIN graph' = DOMAIN graph \cup {locationGraphNode(Top.d)}
    /\ graph'[locationGraphNode(Top.d)] = st
    /\ \A n \in DOMAIN graph : n # locationGraphNode(Top.d) => graph'[n] = graph[n]

\* C34: the node of a Location is marked failed when a call of it starts and
\* used when the call returns its values, and nothing else changes a mark;
\* so a call in progress has a failed node, an error leaves the nodes of
\* the calls it returns through failed, a node is used only if the function
\* was called and returned, and after a build that succeeded the nodes of
\* the Locations called are used and all others are unused.
C34_GraphNodeStatus ==
    /\ [][StartsCall => OnlyTopMarked("failed")]_vars
    /\ [][CompletesCall => OnlyTopMarked("used")]_vars
    /\ [][~StartsCall /\ ~CompletesCall => graph' = graph]_vars
    /\ [](\A i \in 1..Len(frames) :
             (frames[i].kind = "call" /\ frames[i].entered)
                => NodeStatus(graph, locationGraphNode(frames[i].d)) = "failed")
    /\ [](\A n \in DOMAIN graph :
             /\ graph[n] \in {"used", "failed"}
             /\ graph[n] = "used" => n \in CalledNames)
    /\ [](err.kind \in {ErrCyclicDependency, ErrProviderCall}
             => \A n \in err.info : NodeStatus(graph, n) = "failed")
    /\ [](pc = "done" =>
             \A d \in 1..Len(descs) :
                NodeStatus(graph, descs[d].fn) =
                   IF descs[d].fn \in CalledNames THEN "used" ELSE "unused")

\* IntToFloatErr returns an error after IntProvider5 was called for it: its
\* node and those of its two callers are failed, that of IntProvider5 is
\* used, and the provider of the string pointer, never called, is unused
C34_Witness ==
    /\ suite = "Failure"
    /\ pc = "failed"
    /\ err.kind = ErrProviderCall
    /\ DescOf("StringPtrProviderFoo") # 0
    /\ NodeStatus(graph, "StringPtrProviderFoo") = "unused"
    /\ NodeStatus(graph, "IntProvider5") = "used"
    /\ NodeStatus(graph, "IntToFloatErr") = "failed"
    /\ NodeStatus(graph, "FloatStrPtrToStr") = "failed"
    /\ NodeStatus(graph, "build") = "failed"

\* the Locations on the active-call stack
OnStack(st) == { st[i] : i \in 1..Len(st) }

\* C35: in every state the membership set is the set of the Locations on the
\* active-call stack and no Location is on the stack twice; a step changes
\* the stack by one push of a Location that is not a member, or by one pop,
\* and the pop takes the Location pushed last off the stack and out of the
\* set.
C35_ActiveCallBookkeeping ==
    /\ [](callerMap = OnStack(callerStack))
    /\ [](\A i, j \in 1..Len(callerStack) : callerStack[i] = callerStack[j] => i = j)
    /\ [][\/ /\ callerStack' = callerStack
              /\ callerMap' = callerMap
           \/ /\ Len(callerStack') = Len(callerStack) + 1
              /\ SubSeq(callerStack', 1, Len(callerStack)) = callerStack
              /\ callerStack'[Len(callerStack')] \notin callerMap
              /\ callerMap' = callerMap \cup {callerStack'[Len(callerStack')]}
           \/ /\ callerStack # <<>>
              /\ callerStack' = SubSeq(callerStack, 1, Len(callerStack) - 1)
              /\ callerMap' = callerMap \ {callerStack[Len(callerStack)]}]_vars

\* three calls are in progress after another one has returned
C35_Witness ==
    /\ Len(callerStack) = 3
    /\ Cardinality(callerMap) = 3
    /\ callLog # <<>>
    /\ err.kind = "none"

\* the calls, as << Location, scope >>, that the resolution of an input of
\* type typ in scope k leads to
CallsOf(typ, k) ==
    IF typ \in {moduleKeyType, ownModuleKeyType} THEN {}
    ELSE Let(getResolver(ctr, typ, k), LAMBDA vr :
         IF vr.err.kind # "none" THEN {}
         ELSE CASE vr.res.kind = "simple" -> {<<vr.res.d, vr.res.key>>}
                [] vr.res.kind = "moduleDep" ->
                     IF k = NoKey THEN {} ELSE {<<vr.res.d, k>>}
                [] vr.res.kind = "sliceGroup" ->
                     { <<vr.c.groups[vr.res.elem].providers[n],
                         descs[vr.c.groups[vr.res.elem].providers[n]].key>> :
                         n \in 1..Len(vr.c.groups[vr.res.elem].providers) }
                [] vr.res.kind = "mapOfOnePerModule" ->
                     { <<vr.c.ones[vr.res.elem].providers[m],
                         descs[vr.c.ones[vr.res.elem].providers[m]].key>> :
                         m \in DOMAIN vr.c.ones[vr.res.elem].providers }
                [] OTHER -> {})

\* the edges of the (provider, scope) dependency graph that leave node n
DependsOn(n) ==
    UNION { CallsOf(descs[n[1]].in[i], n[2]) : i \in 1..Len(descs[n[1]].in) }

RECURSIVE ReachableFrom(_, _)
\* the nodes reached from the nodes of todo, seen being reached already
ReachableFrom(seen, todo) ==
    IF todo = {} THEN seen
    ELSE LET next == UNION { DependsOn(n) : n \in todo }
         IN  ReachableFrom(seen \cup next, next \ seen)

\* the (provider, scope) graph that the call on the bottom of the stack
\* depends on has a cycle
RealCycle ==
    \E n \in ReachableFrom({<<frames[1].d, frames[1].key>>},
                           {<<frames[1].d, frames[1].key>>}) :
        n \in ReachableFrom({}, {n})

\* the graph of the Locations, scopes left out, has a cycle through loc
LocationCycle(loc) ==
    \E n \in ReachableFrom({}, {<<loc, k>> : k \in {frames[i].key : i \in 1..Len(frames)}}) :
        n[1] = loc

\* the step raises the cyclic-dependency error
RaisesCycleError == err.kind = "none" /\ err'.kind = ErrCyclicDependency

\* as first stated: the error is raised only if the (provider, scope) graph
\* has a cycle
C36_OnlyRealCycles == [][RaisesCycleError => RealCycle]_vars

\* C36: the step a call takes first raises the cyclic-dependency error if
\* and only if the Location to be called is on the active-call stack,
\* whatever scope it is called for and was called for; the error names that
\* Location alone; and it is raised only when the calls in progress lead
\* from that Location back to itself, which makes a cycle of the dependency
\* graph with the scopes left out.
C36_CycleError ==
    /\ [][StartsCall => (RaisesCycleError <=> Top.d \in OnStack(callerStack))]_vars
    /\ [][RaisesCycleError =>
             /\ StartsCall
             /\ err'.info = {descs[Top.d].fn}
             /\ \E i \in 1..(Len(frames) - 1) :
                   /\ frames[i].kind = "call"
                   /\ frames[i].entered
                   /\ frames[i].d = Top.d
             /\ LocationCycle(Top.d)]_vars

\* a provider that takes the module key is called for module b while its
\* call for module a is in progress, and the error is raised
C36_Witness ==
    /\ err.kind = ErrCyclicDependency
    /\ frames # <<>>
    /\ Top.kind = "call"
    /\ ~Top.entered
    /\ hasModuleKeyParam(descs[Top.d].in)
    /\ \E i \in 1..(Len(frames) - 1) :
          frames[i].kind = "call" /\ frames[i].d = Top.d /\ frames[i].key # Top.key


(***************************************************************************)
(* Registration order.                                                     *)
(***************************************************************************)
\* list with its i-th and (i+1)-th members exchanged
SwapAt(list, i) ==
    [j \in 1..Len(list) |-> IF j = i THEN list[i + 1]
                            ELSE IF j = i + 1 THEN list[i]
                            ELSE list[j]]

\* the places of the applied configuration where two provider registrations
\* follow one another
AdjacentProviders ==
    { i \in 1..(Len(applied) - 1) :
        /\ applied[i].op \in {"Provide", "ProvideInModule"}
        /\ applied[i + 1].op \in {"Provide", "ProvideInModule"} }

\* C37 (registration-order independence): when a build is over, exchanging
\* two provider registrations that follow one another in the configuration
\* changes neither whether the configuration applies nor what a consumer of
\* Duck finds for it (the same implementation, or the same kind of error):
\* two implementations without a binding are ambiguous wherever the
\* consumer is registered.
C37_OrderIndependence ==
    pc \in {"done", "failed"} =>
        \A i \in AdjacentProviders : \A key \in ConsumerScopes("Duck") :
            LET here == Finds(applied, "Duck", key)
                there == Finds(SwapAt(applied, i), "Duck", key)
            IN  here.ok = there.ok /\ here.what = there.what


(***************************************************************************)
(* Termination.                                                            *)
(***************************************************************************)
\* no Location is active twice
NoReentry ==
    \A i, j \in 1..Len(callerStack) : callerStack[i] = callerStack[j] => i = j

\* no provider was called with success twice for one scope
CalledOnce ==
    \A i, j \in 1..Len(callLog) :
        (/\ callLog[i].d = callLog[j].d
         /\ callLog[i].key = callLog[j].key
         /\ descs[callLog[i].d].fn # "build"
         /\ i # j) => ProviderError(descs[callLog[i].d]).kind # "none"

\* C38 (termination): every build eventually returns, with values or with
\* an error; on the way no provider is active twice, so the stack of active
\* callers is never deeper than the number of descriptors, and no provider
\* is called with success twice for one scope.
C38_Termination ==
    /\ [](NoReentry /\ Len(callerStack) <= Len(descs) /\ CalledOnce)
    /\ <>(pc \in {"done", "failed"})

\* a build that returned with the cycle error after three providers had
\* been entered and none had been called
C38_Witness ==
    /\ pc = "failed"
    /\ err.kind = ErrCyclicDependency
    /\ Len(callLog) = 0
    /\ Cardinality({ n \in DOMAIN graph : graph[n] = "failed" }) >= 3


(***************************************************************************)
(* The error Inject returns.                                               *)
(***************************************************************************)
\* the message e holds the message part, whole and in order
Mentions(e, part) ==
    \E i \in 1..(Len(e) - Len(part) + 1) : SubSeq(e, i, i + Len(part) - 1) = part

\* C39: a call returns nil if and only if the application of the debug
\* option, the application of the configuration, the build of the container
\* and the application of the OnSuccess option all succeeded; when the build
\* of the container fails, the call returns the build's error unchanged if
\* the application of the OnError option succeeds, and else an error whose
\* message holds both the hook's error and the build's.
C39_ReturnedError ==
    \A b \in Builds :
        builds[b].pc \in {"deferred", "returned"} =>
            LET ret == builds[b].ret
                hookError == applyConfigError(RegisteredOnError(b))
                hookSuccess == applyConfigError(RegisteredOnSuccess(b))
            IN  /\ ret = Nil <=> /\ applyConfigError(builds[b].opt) = Nil
                                 /\ builds[b].outcome = "built"
                                 /\ hookSuccess = Nil
                /\ builds[b].outcome = "not built" =>
                      IF hookError = Nil
                      THEN ret = BuildError
                      ELSE /\ Mentions(ret, hookError)
                           /\ Mentions(ret, BuildError)
                           /\ ret # BuildError /\ ret # hookError

\* a call whose build failed and whose error hook failed returned an error
\* with both messages, and a call of Inject that succeeded returned nil
C39_Witness ==
    /\ builds[1].pc = "returned"
    /\ builds[1].opt = FailingHooks
    /\ builds[1].outcome = "not built"
    /\ builds[1].ret = <<"error handling failed: ", "error hook error",
                         " (original error: ", "build error", ")">>
    /\ builds[2].pc = "returned"
    /\ builds[2].opt = AutoDebug
    /\ builds[2].outcome = "built"
    /\ builds[2].ret = Nil

====
